---- MODULE Spec2Model ----
(***************************************************************************)
(* Model of the frameparsing library (src/frameparsing/parsing.py and      *)
(* src/frameparsing/framecode_types.py).                                   *)
(*                                                                         *)
(* The library is a set of pure functions.  A text is modelled as a        *)
(* sequence of one-character strings, so that formatting, parsing and      *)
(* regular-expression matching are computed character by character.        *)
(* Every specification draws the arguments of a call in its initial        *)
(* states; its actions are the calls.                                      *)
(***************************************************************************)
EXTENDS Integers, Sequences, FiniteSets, TLC

VARIABLES
    pc,          \* position of the caller: which call comes next / has returned
    numbers,     \* argument of format_numbers: a sequence of items
    text,        \* argument of parse_numbers written by the caller
    abc,         \* the integers the caller wrote into text
    formatted,   \* what format_numbers(numbers) returned or raised
    parsed,      \* what consuming parse_numbers(...) yielded or raised
    reformatted, \* what format_numbers(parsed values) returned or raised
    string,      \* argument of the filename functions
    fn,          \* name of the filename function that was called
    repl,        \* the replacement text given to replace_framecode
    to_type,     \* the framecode type given to translate_framecode or generate_framecode
    ret,         \* what it returned or raised
    arg_width,   \* the width given to generate_framecode
    policy,      \* the width option given to create_regex
    regex,       \* what create_regex returned or raised
    seqname,     \* what Seqname(string) constructed or raised
    frame,       \* the frame number given to Seqname.format
    candidate,   \* the text a pattern or a Seqname is matched against
    strict,      \* the strict argument of Seqname.matches
    translated,  \* what the first of two translations returned or raised
    sequences,   \* the FrameSequence objects constructed so far
    made,        \* what the last FrameSequence(frames) constructed or raised
    arg_absolute, \* the absolute argument of zip_sequences
    arg_step,    \* the step argument of zip_sequences
    zipped,      \* what consuming zip_sequences(*sequences) yielded or raised
    looked_up    \* a frame of a sequence and what get_frame returned for its number

vars == <<pc, numbers, text, abc, formatted, parsed, reformatted, string, fn, repl, to_type, ret,
          arg_width, policy, regex, seqname, frame, candidate, strict, translated,
          sequences, made, arg_absolute, arg_step, zipped, looked_up>>
numberVars == <<numbers, text, abc, formatted, parsed, reformatted>>
nameVars == <<string, fn, repl, to_type, ret>>
matchVars == <<arg_width, policy, regex, seqname, frame, candidate, strict, translated>>
sequenceVars == <<sequences, made, arg_absolute, arg_step, zipped, looked_up>>

(***************************************************************************)
(* Bounds of the model.                                                    *)
(***************************************************************************)
MaxLen == 5      \* longest argument of format_numbers
MaxStep == 2     \* largest |c| written into "a-bxc"
MaxK == 3        \* largest k with b = a + c*k
MaxCount == 3    \* largest C written into "AxC"
MaxParts == 3    \* most fragments a filename argument is assembled from
MaxWidth == 12   \* largest width given to generate_framecode
MaxText == 5     \* longest text given to parse_numbers
MaxFrames == 3   \* most filenames given to FrameSequence
MaxSequences == 2   \* most sequences given to zip_sequences

\* the integers the caller draws from
NumVals == {-2, 0, 1, 2, 12}

(***************************************************************************)
(* Python values.                                                          *)
(***************************************************************************)
\* an element of 'numbers': an int, or a float with the same numeric value
IntItem(n) == [t |-> "int", v |-> n]
FloatItem(n) == [t |-> "float", v |-> n]

None == [kind |-> "None"]
Value(v) == [kind |-> "value", v |-> v]
Raise(e, msg) == [kind |-> "raise", exc |-> e, msg |-> msg]

RECURSIVE Cat(_)
\* concatenation of a sequence of texts
Cat(parts) == IF parts = <<>> THEN <<>> ELSE Head(parts) \o Cat(Tail(parts))

DigitChars == <<"0", "1", "2", "3", "4", "5", "6", "7", "8", "9">>
IsDigit(c) == c \in {"0", "1", "2", "3", "4", "5", "6", "7", "8", "9"}
DigitVal(c) == CHOOSE d \in 0..9 : DigitChars[d + 1] = c

RECURSIVE StrNat(_)
StrNat(n) == IF n < 10 THEN <<DigitChars[n + 1]>>
             ELSE StrNat(n \div 10) \o <<DigitChars[(n % 10) + 1]>>

\* str(n) / f"{n}" of an int: decimal digits, a leading '-' when negative
str(n) == IF n < 0 THEN <<"-">> \o StrNat(-n) ELSE StrNat(n)

RECURSIVE IntDigits(_)
IntDigits(s) == IF s = <<>> THEN 0
                ELSE IntDigits(SubSeq(s, 1, Len(s) - 1)) * 10 + DigitVal(s[Len(s)])

\* int(s) of a text matched by -?\d+
int(s) == IF s[1] = "-" THEN 0 - IntDigits(Tail(s)) ELSE IntDigits(s)

(***************************************************************************)
(* parse_numbers                                                           *)
(***************************************************************************)
IsSpace(c) == c = " "

RECURSIVE StripBeforeNonDigit(_, _)
\* re.sub(r"\s(?!\d)", "", string), from index i on
StripBeforeNonDigit(s, i) ==
    IF i > Len(s) THEN <<>>
    ELSE IF IsSpace(s[i]) /\ ~(i < Len(s) /\ IsDigit(s[i + 1]))
         THEN StripBeforeNonDigit(s, i + 1)
         ELSE <<s[i]>> \o StripBeforeNonDigit(s, i + 1)

RECURSIVE StripAfterNonDigit(_, _)
\* re.sub(r"(?<!\d)\s", "", string), from index i on
StripAfterNonDigit(s, i) ==
    IF i > Len(s) THEN <<>>
    ELSE IF IsSpace(s[i]) /\ ~(i > 1 /\ IsDigit(s[i - 1]))
         THEN StripAfterNonDigit(s, i + 1)
         ELSE <<s[i]>> \o StripAfterNonDigit(s, i + 1)

RECURSIVE DigitsEnd(_, _)
\* \d+ is greedy: the index after the run of digits that starts at i (i: no digit)
DigitsEnd(s, i) == IF i <= Len(s) /\ IsDigit(s[i]) THEN DigitsEnd(s, i + 1) ELSE i

\* -?\d+ at index i: the index after the match, 0 when it does not match
MatchInt(s, i) ==
    IF i <= Len(s) /\ s[i] = "-" /\ DigitsEnd(s, i + 1) > i + 1 THEN DigitsEnd(s, i + 1)
    ELSE IF DigitsEnd(s, i) > i THEN DigitsEnd(s, i)
    ELSE 0

\* (?:<mark>(-?\d+))? at index i, <mark> being '-' or 'x': the optional group is taken whenever it matches
OptGroup(s, i, mark) ==
    IF i <= Len(s) /\ s[i] = mark /\ MatchInt(s, i + 1) # 0
    THEN [present |-> TRUE, txt |-> SubSeq(s, i + 1, MatchInt(s, i + 1) - 1),
          end |-> MatchInt(s, i + 1)]
    ELSE [present |-> FALSE, txt |-> <<>>, end |-> i]

\* the pattern (-?\d+)(?:-(-?\d+))?(?:x(-?\d+))? at index i
NumbersMatch(s, i) ==
    IF MatchInt(s, i) = 0 THEN [found |-> FALSE]
    ELSE LET endA == MatchInt(s, i)
             B == OptGroup(s, endA, "-")
             C == OptGroup(s, B.end, "x")
         IN [found |-> TRUE, A |-> SubSeq(s, i, endA - 1), B |-> B, C |-> C, end |-> C.end]

\* list(range(A, B, C)) for C # 0: the values A, A + C, ... before B
range(A, B, C) ==
    LET length == IF C > 0 /\ A < B THEN (B - A + C - 1) \div C
                  ELSE IF C < 0 /\ A > B THEN (A - B - C - 1) \div (0 - C)
                  ELSE 0
    IN [i \in 1..length |-> A + (i - 1) * C]

\* variant: one copy too many
Repeat_more(A, C) == [i \in 1..(IF C + 1 > 0 THEN C + 1 ELSE 0) |-> A]
\* "for i in range(C): yield A"
Repeat(A, C) == [i \in 1..(IF C > 0 THEN C ELSE 0) |-> A]

\* variant: the endpoint left exclusive
InclusiveEnd_exclusive(B, C) == B
\* "B += 1 if C >= 0 else -1"
InclusiveEnd(B, C) == IF C >= 0 THEN B + 1 ELSE B - 1

\* what one match yields: the values, and whether range() raised
Unit(m) ==
    LET A == int(m.A) IN
    IF ~m.B.present /\ ~m.C.present THEN [exc |-> "none", values |-> <<A>>]
    ELSE IF m.C.present /\ ~m.B.present
         THEN [exc |-> "none", values |-> Repeat(A, int(m.C.txt))]
    ELSE LET C == IF m.C.present THEN int(m.C.txt) ELSE 1
             B == InclusiveEnd(int(m.B.txt), C)
         IN IF C = 0 THEN [exc |-> "ValueError", values |-> <<>>]
            ELSE [exc |-> "none", values |-> range(A, B, C)]

RECURSIVE finditer(_, _, _)
\* re.finditer over the stripped text from index i on; 'values' were yielded so far
finditer(s, i, values) ==
    IF i > Len(s) THEN [exc |-> "none", values |-> values]
    ELSE LET m == NumbersMatch(s, i) IN
         IF ~m.found THEN finditer(s, i + 1, values)
         ELSE LET u == Unit(m) IN
              IF u.exc # "none" THEN [exc |-> u.exc, values |-> values \o u.values]
              ELSE finditer(s, m.end, values \o u.values)

\* list(parse_numbers(string)): the values yielded, and the exception that ended it
parse_numbers(s) ==
    finditer(StripAfterNonDigit(StripBeforeNonDigit(s, 1), 1), 1, <<>>)

RECURSIVE join(_, _)
\* separator.join(output)
join(separator, output) ==
    IF output = <<>> THEN <<>>
    ELSE IF Len(output) = 1 THEN output[1]
    ELSE output[1] \o separator \o join(separator, Tail(output))

(***************************************************************************)
(* format_numbers                                                          *)
(***************************************************************************)
\* isinstance(item, int)
typecheck(item) == item.t = "int"

\* variant: the window is not checked
typecheck_window_skipped(seq_start, seq_end, next_number) == TRUE
\* the check of the window at the top of the loop
typecheck_window(seq_start, seq_end, next_number) ==
    typecheck(seq_start) /\ typecheck(seq_end) /\ typecheck(next_number)

\* variant: a step of 1 is written too
build_string_step(seq_start, seq_end, step, seq_length) ==
    IF step = 0 THEN str(seq_start) \o <<"x">> \o str(seq_length)
    ELSE str(seq_start) \o <<"-">> \o str(seq_end) \o <<"x">> \o str(step)
\* build_string() of format_numbers
build_string(seq_start, seq_end, step, seq_length) ==
    IF step = 0 THEN str(seq_start) \o <<"x">> \o str(seq_length)
    ELSE IF step = 1 THEN str(seq_start) \o <<"-">> \o str(seq_end)
    ELSE str(seq_start) \o <<"-">> \o str(seq_end) \o <<"x">> \o str(step)

CommaSpace == <<",", " ">>
Returned(output) == [exc |-> "none", value |-> join(CommaSpace, output)]
TypeErrorRaised == [exc |-> "TypeError", value |-> <<>>]
ValueErrorRaised == [exc |-> "ValueError", value |-> <<>>]

\* variant: two different numbers written as a range
two_numbers_range(seq_start, seq_end) ==
    IF seq_start = seq_end THEN str(seq_start) \o <<"x", "2">>
    ELSE str(seq_start) \o <<"-">> \o str(seq_end)
\* the input ended after two numbers
two_numbers(seq_start, seq_end) ==
    IF seq_start = seq_end THEN str(seq_start) \o <<"x", "2">>
    ELSE str(seq_start) \o CommaSpace \o str(seq_end)

RECURSIVE format_loop(_, _, _, _, _, _, _, _)
RECURSIVE fetch_after_break(_, _, _, _, _, _, _)

\* the end of the 'else' branch of the loop: fetch the next number or flush.
\* i items of nums were consumed; seq_length is whatever the last run left.
fetch_after_break(nums, i, seq_start, seq_end, step, seq_length, output) ==
    IF i >= Len(nums)
    THEN IF step = 0
         THEN Returned(Append(output, str(seq_start.v) \o <<"x">> \o str(seq_length)))
         ELSE Returned(output \o <<str(seq_start.v), str(seq_end.v)>>)
    ELSE format_loop(nums, i + 1, seq_start, seq_end, nums[i + 1],
                     seq_end.v - seq_start.v, 2, output)

\* variant: a run of two elements is written as a run
format_loop_pairs(nums, i, seq_start, seq_end, next_number, step, seq_length, output) ==
    IF ~typecheck_window(seq_start, seq_end, next_number) THEN TypeErrorRaised
    ELSE IF next_number.v = seq_start.v + step * seq_length
    THEN IF i >= Len(nums)
         THEN Returned(Append(output,
                  build_string(seq_start.v, next_number.v, step, seq_length + 1)))
         ELSE format_loop(nums, i + 1, seq_start, next_number, nums[i + 1],
                          step, seq_length + 1, output)
    ELSE LET emitted == Append(output, build_string(seq_start.v, seq_end.v, step, seq_length))
         IN IF i >= Len(nums) THEN Returned(Append(emitted, str(next_number.v)))
            ELSE IF ~typecheck(nums[i + 1]) THEN TypeErrorRaised
            ELSE fetch_after_break(nums, i + 1, next_number, nums[i + 1],
                                   nums[i + 1].v - next_number.v, seq_length, emitted)

\* one pass of "while True" with the window (seq_start, seq_end, next_number)
format_loop(nums, i, seq_start, seq_end, next_number, step, seq_length, output) ==
    IF ~typecheck_window(seq_start, seq_end, next_number) THEN TypeErrorRaised
    ELSE IF next_number.v = seq_start.v + step * seq_length
    THEN IF i >= Len(nums)
         THEN Returned(Append(output,
                  build_string(seq_start.v, next_number.v, step, seq_length + 1)))
         ELSE format_loop(nums, i + 1, seq_start, next_number, nums[i + 1],
                          step, seq_length + 1, output)
    ELSE IF seq_length >= 3 \/ step = 0
    THEN LET emitted == Append(output, build_string(seq_start.v, seq_end.v, step, seq_length))
         IN IF i >= Len(nums) THEN Returned(Append(emitted, str(next_number.v)))
            ELSE IF ~typecheck(nums[i + 1]) THEN TypeErrorRaised
            ELSE fetch_after_break(nums, i + 1, next_number, nums[i + 1],
                                   nums[i + 1].v - next_number.v, seq_length, emitted)
    ELSE fetch_after_break(nums, i, seq_end, next_number, next_number.v - seq_end.v,
                           seq_length, Append(output, str(seq_start.v)))

\* format_numbers(numbers), numbers an iterable of items
format_numbers(nums) ==
    IF Len(nums) = 0 THEN ValueErrorRaised
    ELSE IF ~typecheck(nums[1]) THEN TypeErrorRaised
    ELSE IF Len(nums) = 1 THEN [exc |-> "none", value |-> str(nums[1].v)]
    ELSE IF ~typecheck(nums[2]) THEN TypeErrorRaised
    ELSE IF Len(nums) = 2 THEN [exc |-> "none", value |-> two_numbers(nums[1].v, nums[2].v)]
    ELSE IF ~typecheck(nums[3]) THEN TypeErrorRaised
    ELSE format_loop(nums, 3, nums[1], nums[2], nums[3], nums[2].v - nums[1].v, 2, <<>>)

(***************************************************************************)
(* The number functions as calls: the caller formats a sequence, parses    *)
(* the text it got and formats the result again; or it writes a range      *)
(* "a-bxc" or a repeat "AxC" and parses it.                                *)
(***************************************************************************)
Items(values) == [i \in 1..Len(values) |-> IntItem(values[i])]

ItemSet == {IntItem(v) : v \in NumVals} \cup {FloatItem(1)}
NumberInputs == UNION {[1..n -> ItemSet] : n \in 0..MaxLen}

RangeArgs == {[kind |-> "range", a |-> a, b |-> a + c * k, c |-> c, k |-> k] :
                 a \in NumVals, c \in (0 - MaxStep)..MaxStep, k \in 0..MaxK}
RepeatArgs == {[kind |-> "repeat", a |-> a, c |-> c] : a \in NumVals, c \in 0..MaxCount}

\* f"{a}-{b}x{c}" and f"{A}x{C}"
RangeText(a, b, c) == str(a) \o <<"-">> \o str(b) \o <<"x">> \o str(c)
RepeatText(a, c) == str(a) \o <<"x">> \o str(c)
TextOf(args) == IF args.kind = "range" THEN RangeText(args.a, args.b, args.c)
                ELSE RepeatText(args.a, args.c)

NoText == [exc |-> "unset", value |-> <<>>]
NoValues == [exc |-> "unset", values |-> <<>>]
NoArgs == [kind |-> "none"]

SequencesIdle ==
    /\ sequences = <<>> /\ made = None /\ arg_absolute = TRUE /\ arg_step = 1
    /\ zipped = None /\ looked_up = None

MatchIdle ==
    /\ arg_width = 0 /\ policy = "" /\ regex = None /\ seqname = None /\ frame = 0
    /\ candidate = <<>> /\ strict = TRUE /\ translated = None
    /\ SequencesIdle

NamesIdle ==
    /\ string = <<>> /\ fn = "" /\ repl = <<>> /\ to_type = "" /\ ret = None
    /\ MatchIdle

InitNumbers ==
    /\ formatted = NoText /\ parsed = NoValues /\ reformatted = NoText
    /\ NamesIdle
    /\ \/ /\ pc = "format"
          /\ numbers \in NumberInputs
          /\ abc = NoArgs
          /\ text = <<>>
       \/ /\ pc = "parse"
          /\ numbers = <<>>
          /\ abc \in RangeArgs \cup RepeatArgs
          /\ text = TextOf(abc)

FormatNumbers ==
    /\ pc = "format"
    /\ formatted' = format_numbers(numbers)
    /\ pc' = IF formatted'.exc = "none" THEN "formatted" ELSE "raised"
    /\ UNCHANGED <<numbers, text, abc, parsed, reformatted>> /\ UNCHANGED nameVars /\ UNCHANGED matchVars
    /\ UNCHANGED sequenceVars

ParseFormatted ==
    /\ pc = "formatted"
    /\ parsed' = parse_numbers(formatted.value)
    /\ pc' = IF parsed'.exc = "none" THEN "parsed" ELSE "raised"
    /\ UNCHANGED <<numbers, text, abc, formatted, reformatted>> /\ UNCHANGED nameVars /\ UNCHANGED matchVars
    /\ UNCHANGED sequenceVars

FormatParsed ==
    /\ pc = "parsed"
    /\ reformatted' = format_numbers(Items(parsed.values))
    /\ pc' = "reformatted"
    /\ UNCHANGED <<numbers, text, abc, formatted, parsed>> /\ UNCHANGED nameVars /\ UNCHANGED matchVars
    /\ UNCHANGED sequenceVars

ParseText ==
    /\ pc = "parse"
    /\ parsed' = parse_numbers(text)
    /\ pc' = "text_parsed"
    /\ UNCHANGED <<numbers, text, abc, formatted, reformatted>> /\ UNCHANGED nameVars /\ UNCHANGED matchVars
    /\ UNCHANGED sequenceVars

NextNumbers == FormatNumbers \/ ParseFormatted \/ FormatParsed \/ ParseText

SpecNumbers == InitNumbers /\ [][NextNumbers]_vars

(***************************************************************************)
(* Properties of parse_numbers and format_numbers (SpecNumbers).           *)
(***************************************************************************)
AllInts(nums) == \A i \in 1..Len(nums) : nums[i].t = "int"
IsProgression(nums) ==
    \A i \in 1..(Len(nums) - 1) : nums[i + 1].v - nums[i].v = nums[2].v - nums[1].v
Formatted == abc.kind = "none" /\ pc # "format"
Contains(s, c) == \E i \in 1..Len(s) : s[i] = c

\* C1: a text that format_numbers returned is a fixed point of parse-then-format:
\* parsing it raises nothing, and formatting the parsed values returns the same text.
C1_RoundTripCanonical ==
    /\ (Formatted /\ formatted.exc = "none" /\ parsed.exc # "unset") => parsed.exc = "none"
    /\ pc = "reformatted" => reformatted = formatted

\* C1 witness: a returned text with a repeat and several fragments went round the trip
C1_Witness ==
    /\ pc = "reformatted"
    /\ Len(numbers) >= 5
    /\ Contains(formatted.value, "x") /\ Contains(formatted.value, ",")
    /\ Contains(formatted.value, "-")

\* the values a, a+c, ..., b the text "a-bxc" stands for (b = a + c*k)
Progression(args) ==
    IF args.c = 0 THEN <<args.a>>
    ELSE [i \in 1..(args.k + 1) |-> args.a + args.c * (i - 1)]

\* C2: parse_numbers("a-bxc") with b = a + c*k, k >= 0, yields exactly a, a+c, ..., b,
\* for every sign of a, b and c, zero included.
C2_RangeYieldsProgression ==
    (pc = "text_parsed" /\ abc.kind = "range")
        => parsed = [exc |-> "none", values |-> Progression(abc)]

\* with a step other than zero the progression is yielded: only c = 0 fails
RangeYieldsProgressionNonZeroStep ==
    (pc = "text_parsed" /\ abc.kind = "range" /\ abc.c # 0)
        => parsed = [exc |-> "none", values |-> Progression(abc)]

\* C3: parse_numbers("AxC") yields A exactly C times and nothing else.
C3_RepeatYieldsCopies ==
    (pc = "text_parsed" /\ abc.kind = "repeat")
        => /\ parsed.exc = "none"
           /\ Len(parsed.values) = abc.c
           /\ \A i \in 1..Len(parsed.values) : parsed.values[i] = abc.a

\* C3 witness: a negative number repeated three times
C3_Witness ==
    /\ pc = "text_parsed" /\ abc.kind = "repeat"
    /\ abc.a < 0 /\ abc.c = 3 /\ Len(parsed.values) = 3

\* C4: an arithmetic progression of n >= 3 integers (start A, end B, difference d) is
\* formatted as the single fragment "Axn" (d = 0), "A-B" (d = 1) or "A-Bxd" (other d).
C4_SingleFragmentForProgression ==
    (Formatted /\ Len(numbers) >= 3 /\ AllInts(numbers) /\ IsProgression(numbers))
        => LET A == numbers[1].v
               B == numbers[Len(numbers)].v
               d == numbers[2].v - numbers[1].v
           IN /\ formatted.exc = "none"
              /\ d = 0 => formatted.value = str(A) \o <<"x">> \o str(Len(numbers))
              /\ d = 1 => formatted.value = str(A) \o <<"-">> \o str(B)
              /\ d \notin {0, 1}
                    => formatted.value = str(A) \o <<"-">> \o str(B) \o <<"x">> \o str(d)

\* C4 witness: a descending progression was formatted
C4_Witness ==
    /\ Formatted /\ Len(numbers) >= 3 /\ AllInts(numbers) /\ IsProgression(numbers)
    /\ numbers[2].v - numbers[1].v < 0
    /\ formatted.exc = "none"

\* C5: format_numbers raises ValueError on an empty input, returns the decimal literal
\* of a single integer, and for two integers "A, B" when they differ and "Ax2" when
\* they are equal.
C5_ShortInputs ==
    Formatted =>
        /\ Len(numbers) = 0 => formatted = ValueErrorRaised
        /\ (Len(numbers) = 1 /\ AllInts(numbers))
              => formatted = [exc |-> "none", value |-> str(numbers[1].v)]
        /\ (Len(numbers) = 2 /\ AllInts(numbers) /\ numbers[1].v # numbers[2].v)
              => formatted = [exc |-> "none",
                              value |-> str(numbers[1].v) \o <<",", " ">> \o str(numbers[2].v)]
        /\ (Len(numbers) = 2 /\ AllInts(numbers) /\ numbers[1].v = numbers[2].v)
              => formatted = [exc |-> "none", value |-> str(numbers[1].v) \o <<"x", "2">>]

\* C5 witness: two adjacent integers, which a range "A-B" could have stood for
C5_Witness ==
    /\ Formatted /\ Len(numbers) = 2 /\ AllInts(numbers)
    /\ numbers[2].v = numbers[1].v + 1
    /\ formatted.exc = "none"

\* C6: format_numbers raises TypeError whenever some element, at any position,
\* is not an integer; it returns no text for such an input.
C6_NonIntegerRaises ==
    (Formatted /\ ~AllInts(numbers)) => formatted = TypeErrorRaised

\* C6 witness: the only non-integer is the last of five elements, after a run broke
C6_Witness ==
    /\ Formatted /\ Len(numbers) = 5
    /\ AllInts(SubSeq(numbers, 1, 4)) /\ numbers[5].t = "float"
    /\ IsProgression(SubSeq(numbers, 1, 3)) /\ ~IsProgression(SubSeq(numbers, 1, 4))
    /\ pc = "raised"

(***************************************************************************)
(* pathlib.Path(string) on a POSIX platform: root, components, name, stem, *)
(* suffix, parent, joining and str().                                      *)
(***************************************************************************)
sep == <<"/">>

RECURSIVE split(_, _, _)
\* s.split(c); cur is the piece being read
split(s, c, cur) ==
    IF s = <<>> THEN <<cur>>
    ELSE IF Head(s) = c THEN <<cur>> \o split(Tail(s), c, <<>>)
    ELSE split(Tail(s), c, Append(cur, Head(s)))

\* the root of a POSIX path: exactly two leading slashes are kept, else one
splitroot(s) ==
    IF Len(s) >= 1 /\ s[1] = "/"
    THEN IF Len(s) >= 2 /\ s[2] = "/" /\ ~(Len(s) >= 3 /\ s[3] = "/")
         THEN <<"/", "/">> ELSE <<"/">>
    ELSE <<>>

\* the components: empty ones and "." are dropped
Path(s) ==
    [root |-> splitroot(s),
     parts |-> SelectSeq(split(s, "/", <<>>), LAMBDA x : x # <<>> /\ x # <<".">>)]

\* str(path)
PathStr(p) ==
    IF p.root = <<>> /\ p.parts = <<>> THEN <<".">> ELSE p.root \o join(sep, p.parts)

\* path.name
PathName(p) == IF p.parts = <<>> THEN <<>> ELSE p.parts[Len(p.parts)]

\* name.rfind('.') as a 1-based index, 0 when there is no dot
rfind_dot(name) ==
    IF \E i \in 1..Len(name) : name[i] = "."
    THEN CHOOSE i \in 1..Len(name) :
            name[i] = "." /\ \A j \in (i + 1)..Len(name) : name[j] # "."
    ELSE 0

\* the suffix starts at the last dot unless that dot begins or ends the name
HasSuffix(name) == 1 < rfind_dot(name) /\ rfind_dot(name) < Len(name)
PathSuffix(p) ==
    IF HasSuffix(PathName(p))
    THEN SubSeq(PathName(p), rfind_dot(PathName(p)), Len(PathName(p))) ELSE <<>>
\* variant: the stem keeps the extension (path.name in the place of path.stem)
PathStem_name(p) == PathName(p)

PathStem(p) ==
    IF HasSuffix(PathName(p))
    THEN SubSeq(PathName(p), 1, rfind_dot(PathName(p)) - 1) ELSE PathName(p)

\* path.parent
PathParent(p) ==
    IF p.parts = <<>> THEN p
    ELSE [root |-> p.root, parts |-> SubSeq(p.parts, 1, Len(p.parts) - 1)]

\* path.with_suffix(suffix) for a path with a name and a suffix that is "" or ".ext"
PathWithSuffix(p, suffix) ==
    [root |-> p.root,
     parts |-> SubSeq(p.parts, 1, Len(p.parts) - 1) \o <<PathStem(p) \o suffix>>]

\* path / child: a child with a root replaces the path
PathJoin(p, child) ==
    IF Path(child).root # <<>> THEN Path(child)
    ELSE [root |-> p.root, parts |-> p.parts \o Path(child).parts]

(***************************************************************************)
(* FRAMECODE_TYPES: the patterns, searched on the stem.  The texts of the  *)
(* model hold no newline, so '.' matches every character.                  *)
(***************************************************************************)
\* variant: the entries in the opposite order
FRAMECODE_TYPES_digits_first == <<"digits", "numbersign", "modulo", "format_code">>
\* the keys of FRAMECODE_TYPES in the order of the dict
FRAMECODE_TYPES == <<"format_code", "modulo", "numbersign", "digits">>

NoMatch == [found |-> FALSE, start |-> 0, end |-> 0, group1 |-> <<>>]
Match(i, e, g) == [found |-> TRUE, start |-> i, end |-> e, group1 |-> g]

At(s, i, c) == i <= Len(s) /\ s[i] = c

RECURSIVE RunEnd(_, _, _)
\* c+ / c* is greedy: the index after the run of c that starts at i
RunEnd(s, i, c) == IF At(s, i, c) THEN RunEnd(s, i + 1, c) ELSE i

\* [{]:0(\d+)d*[}] at index i
match_format_code(s, i) ==
    IF At(s, i, "{") /\ At(s, i + 1, ":") /\ At(s, i + 2, "0")
       /\ DigitsEnd(s, i + 3) > i + 3
       /\ At(s, RunEnd(s, DigitsEnd(s, i + 3), "d"), "}")
    THEN Match(i, RunEnd(s, DigitsEnd(s, i + 3), "d") + 1,
               SubSeq(s, i + 3, DigitsEnd(s, i + 3) - 1))
    ELSE NoMatch

\* %0(\d+)d at index i
match_modulo(s, i) ==
    IF At(s, i, "%") /\ At(s, i + 1, "0") /\ DigitsEnd(s, i + 2) > i + 2
       /\ At(s, DigitsEnd(s, i + 2), "d")
    THEN Match(i, DigitsEnd(s, i + 2) + 1, SubSeq(s, i + 2, DigitsEnd(s, i + 2) - 1))
    ELSE NoMatch

\* (#+)(?!.*#) at index i
match_numbersign(s, i) ==
    IF At(s, i, "#") /\ \A j \in RunEnd(s, i, "#")..Len(s) : s[j] # "#"
    THEN Match(i, RunEnd(s, i, "#"), SubSeq(s, i, RunEnd(s, i, "#") - 1))
    ELSE NoMatch

\* variant: (\d+)(?!.*\d), the sign left out
match_digits_unsigned(s, i) ==
    IF DigitsEnd(s, i) > i /\ \A j \in DigitsEnd(s, i)..Len(s) : ~IsDigit(s[j])
    THEN Match(i, DigitsEnd(s, i), SubSeq(s, i, DigitsEnd(s, i) - 1))
    ELSE NoMatch
\* (-?\d+)(?!.*\d) at index i
match_digits(s, i) ==
    IF MatchInt(s, i) # 0 /\ \A j \in MatchInt(s, i)..Len(s) : ~IsDigit(s[j])
    THEN Match(i, MatchInt(s, i), SubSeq(s, i, MatchInt(s, i) - 1))
    ELSE NoMatch

\* FRAMECODE_TYPES[fc_type]["pattern"] matched at index i
match_at(fc_type, s, i) ==
    CASE fc_type = "format_code" -> match_format_code(s, i)
      [] fc_type = "modulo" -> match_modulo(s, i)
      [] fc_type = "numbersign" -> match_numbersign(s, i)
      [] fc_type = "digits" -> match_digits(s, i)

RECURSIVE re_search_from(_, _, _)
re_search_from(fc_type, s, i) ==
    IF i > Len(s) THEN NoMatch
    ELSE LET m == match_at(fc_type, s, i)
         IN IF m.found THEN m ELSE re_search_from(fc_type, s, i + 1)

\* re.search(pattern, s): the leftmost match
re_search(fc_type, s) == re_search_from(fc_type, s, 1)

RECURSIVE re_sub_from(_, _, _, _)
re_sub_from(fc_type, replacement, s, i) ==
    IF i > Len(s) THEN <<>>
    ELSE LET m == match_at(fc_type, s, i)
         IN IF m.found THEN replacement \o re_sub_from(fc_type, replacement, s, m.end)
            ELSE <<s[i]>> \o re_sub_from(fc_type, replacement, s, i + 1)

\* re.sub(pattern, repl, s) for a repl without backslashes: every match is replaced
re_sub(fc_type, replacement, s) == re_sub_from(fc_type, replacement, s, 1)

\* FRAMECODE_TYPES[fc_type]["width"] applied to group 1: int or len
width_func(fc_type, group1) ==
    IF fc_type \in {"format_code", "modulo"} THEN int(group1) ELSE Len(group1)

\* FRAMECODE_TYPES[fc_type]["generate_framecode"](n)
generate(fc_type, n) ==
    CASE fc_type = "format_code" -> <<"{", ":", "0">> \o str(n) \o <<"d", "}">>
      [] fc_type = "modulo" -> <<"%", "0">> \o str(n) \o <<"d">>
      [] fc_type = "numbersign" -> [i \in 1..n |-> "#"]

(***************************************************************************)
(* _Parser                                                                 *)
(***************************************************************************)
RECURSIVE detect(_, _)
\* the loop of _Parser.__init__ over FRAMECODE_TYPES from entry k on:
\* the first type whose pattern is found in the stem
detect(stem, k) ==
    IF k > Len(FRAMECODE_TYPES) THEN [found |-> FALSE]
    ELSE LET match == re_search(FRAMECODE_TYPES[k], stem)
         IN IF match.found
            THEN [found |-> TRUE, type |-> FRAMECODE_TYPES[k], match |-> match]
            ELSE detect(stem, k + 1)

\* _Parser(string): found is FALSE when __init__ raises ValueError
Parser(s) ==
    LET path == Path(s)
        d == detect(PathStem(path), 1)
    IN IF d.found
       THEN [found |-> TRUE, string |-> s, path |-> path, type |-> d.type, match |-> d.match]
       ELSE [found |-> FALSE, string |-> s, path |-> path]

\* _Parser.framecode: match.group()
Parser_framecode(parser) ==
    SubSeq(PathStem(parser.path), parser.match.start, parser.match.end - 1)

\* _Parser.width
Parser_width(parser) == width_func(parser.type, parser.match.group1)

\* _Parser.replace_framecode(repl)
Parser_replace_framecode(parser, replacement) ==
    PathStr(PathJoin(PathParent(parser.path),
                     re_sub(parser.type, replacement, PathStem(parser.path))
                         \o PathSuffix(parser.path)))

\* variant: a width of 0 is let through
generate_framecode_zero(framecode_type, width) ==
    IF width < 0 THEN Raise("ValueError", "'width' must be positive.")
    ELSE IF ~\E k \in 1..Len(FRAMECODE_TYPES) : FRAMECODE_TYPES[k] = framecode_type
    THEN Raise("ValueError", "'" \o framecode_type \o "' is not a supported framecode type.")
    ELSE IF framecode_type = "digits"
    THEN Raise("ValueError", "Cannot generate framecode of type '" \o framecode_type \o "'")
    ELSE Value(generate(framecode_type, width))
\* generate_framecode(framecode_type, width), width an int and framecode_type a str
generate_framecode(framecode_type, width) ==
    IF width < 1 THEN Raise("ValueError", "'width' must be positive.")
    ELSE IF ~\E k \in 1..Len(FRAMECODE_TYPES) : FRAMECODE_TYPES[k] = framecode_type
    THEN Raise("ValueError", "'" \o framecode_type \o "' is not a supported framecode type.")
    ELSE IF framecode_type = "digits"
    THEN Raise("ValueError", "Cannot generate framecode of type '" \o framecode_type \o "'")
    ELSE Value(generate(framecode_type, width))

\* re.escape(s)
SpecialChars == {"(", ")", "[", "]", "{", "}", "?", "*", "+", "-", "|", "^", "$",
                 "\\", ".", "&", "~", "#", " "}
RECURSIVE re_escape(_)
re_escape(s) ==
    IF s = <<>> THEN <<>>
    ELSE (IF Head(s) \in SpecialChars THEN <<"\\", Head(s)>> ELSE <<Head(s)>>)
             \o re_escape(Tail(s))

\* the entries of width_options in _Parser.create_regex
width_options(option, width) ==
    CASE option = "any" -> <<"-", "?", "\\", "d", "+">>
      [] option = "exact" -> <<"(", "?", ":", "\\", "d", "{">> \o str(width)
                               \o <<"}", "|", "-", "\\", "d", "{">> \o str(width - 1)
                               \o <<"}", ")">>
      [] option = "min" -> <<"(", "?", ":", "\\", "d", "{">> \o str(width)
                               \o <<",", "}", "|", "-", "\\", "d", "{">> \o str(width - 1)
                               \o <<",", "}", ")">>
      [] option = "max" -> <<"(", "?", ":", "\\", "d", "{", "1", ",">> \o str(width)
                               \o <<"}", "|", "-", "\\", "d", "{", "1", ",">> \o str(width - 1)
                               \o <<"}", ")">>

RECURSIVE last_match_end(_, _, _, _)
\* the end of the last match re.split finds from index i on (e when there is none)
last_match_end(fc_type, s, i, e) ==
    IF i > Len(s) THEN e
    ELSE LET m == match_at(fc_type, s, i)
         IN IF m.found THEN last_match_end(fc_type, s, m.end, m.end)
            ELSE last_match_end(fc_type, s, i + 1, e)

\* _Parser.create_regex(width), width a str
Parser_create_regex(parser, option) ==
    IF option \notin {"any", "exact", "min", "max"}
    THEN Raise("ValueError", "'" \o option \o "' not supported as an option."
                                 \o "Available options: 'any', 'exact', 'min', 'max'.")
    ELSE LET stem == PathStem(parser.path)
             first == SubSeq(stem, 1, parser.match.start - 1)
             last == SubSeq(stem, last_match_end(parser.type, stem, 1, 1), Len(stem))
             new_name == re_escape(first) \o width_options(option, Parser_width(parser))
                             \o re_escape(last) \o re_escape(PathSuffix(parser.path))
             parent == PathStr(PathParent(parser.path))
         IN IF parent = <<".">> THEN Value(new_name)
            ELSE Value(re_escape(parent) \o re_escape(sep) \o new_name)

\* _Parser.translate(to_type)
Parser_translate(parser, type) ==
    IF type = "regex" THEN Parser_create_regex(parser, "any")
    ELSE LET framecode == generate_framecode(type, Parser_width(parser))
         IN IF framecode.kind = "raise" THEN framecode
            ELSE Value(Parser_replace_framecode(parser, framecode.v))

(***************************************************************************)
(* The module-level functions                                              *)
(***************************************************************************)
get_framecode(s) ==
    LET parser == Parser(s)
    IN IF parser.found THEN Value(Parser_framecode(parser)) ELSE None

get_frame_number(s) ==
    LET parser == Parser(s)
    IN IF parser.found
       THEN IF parser.type = "digits" THEN Value(int(Parser_framecode(parser))) ELSE None
       ELSE None

has_framecode(s) == Value(Parser(s).found)

get_framecode_type(s) ==
    LET parser == Parser(s) IN IF parser.found THEN Value(parser.type) ELSE None

get_framecode_width(s) ==
    LET parser == Parser(s) IN IF parser.found THEN Value(Parser_width(parser)) ELSE None

\* variant: the fallback returns str(Path(string))
replace_framecode_normalised(s, replacement) ==
    LET parser == Parser(s)
    IN IF parser.found THEN Value(Parser_replace_framecode(parser, replacement))
       ELSE Value(PathStr(Path(s)))
\* replace_framecode(string, repl): the string itself when no framecode is found
replace_framecode(s, replacement) ==
    LET parser == Parser(s)
    IN IF parser.found THEN Value(Parser_replace_framecode(parser, replacement))
       ELSE Value(s)

translate_framecode(s, type) ==
    LET parser == Parser(s)
    IN IF parser.found THEN Parser_translate(parser, type) ELSE Value(s)

\* create_regex(string, width): the escaped string when no framecode is found
create_regex(s, option) ==
    LET parser == Parser(s)
    IN IF parser.found THEN Parser_create_regex(parser, option) ELSE Value(re_escape(s))

(***************************************************************************)
(* re.fullmatch and re.search for the patterns create_regex builds:        *)
(* literal characters, escaped characters, \d, non-capturing groups with   *)
(* alternatives, and the repeats ?, *, + and {m}, {m,}, {m,n} of a         *)
(* character.  A pattern is first compiled, which can fail, and then       *)
(* matched by trying the alternatives and the counts of each repeat.       *)
(***************************************************************************)
Unbounded == 0 - 1

NoRepeat(i) == [found |-> FALSE, min |-> 1, max |-> 1, end |-> i, err |-> FALSE]

\* the repeat that starts at index i of the pattern, if one does.  As in the parser of
\* re, a '{' that does not open "{m}", "{m,}", "{,n}" or "{m,n}" is a literal, and
\* "{m,n}" with m > n is an error ("min repeat greater than max repeat").  A '?' after
\* a repeat makes it lazy, which matches the same texts.
repeat_at(rx, i) ==
    LET Lazy(e) == IF At(rx, e, "?") THEN e + 1 ELSE e
    IN IF At(rx, i, "?")
       THEN [found |-> TRUE, min |-> 0, max |-> 1, end |-> Lazy(i + 1), err |-> FALSE]
       ELSE IF At(rx, i, "*")
       THEN [found |-> TRUE, min |-> 0, max |-> Unbounded, end |-> Lazy(i + 1), err |-> FALSE]
       ELSE IF At(rx, i, "+")
       THEN [found |-> TRUE, min |-> 1, max |-> Unbounded, end |-> Lazy(i + 1), err |-> FALSE]
       ELSE IF At(rx, i, "{") /\ ~At(rx, i + 1, "}")
       THEN LET loEnd == DigitsEnd(rx, i + 1)
                lo == SubSeq(rx, i + 1, loEnd - 1)
                comma == At(rx, loEnd, ",")
                hiEnd == IF comma THEN DigitsEnd(rx, loEnd + 1) ELSE loEnd
                hi == IF comma THEN SubSeq(rx, loEnd + 1, hiEnd - 1) ELSE lo
                min == IF lo = <<>> THEN 0 ELSE IntDigits(lo)
                max == IF hi = <<>> THEN Unbounded ELSE IntDigits(hi)
            IN IF ~At(rx, hiEnd, "}") THEN NoRepeat(i)
               ELSE [found |-> TRUE, min |-> min, max |-> max, end |-> Lazy(hiEnd + 1),
                     err |-> max # Unbounded /\ max < min]
       ELSE NoRepeat(i)

AlphaNumeric ==
    {"a", "b", "c", "d", "e", "f", "g", "h", "i", "j", "k", "l", "m", "n", "o", "p", "q",
     "r", "s", "t", "u", "v", "w", "x", "y", "z", "A", "B", "C", "D", "E", "F", "G", "H",
     "I", "J", "K", "L", "M", "N", "O", "P", "Q", "R", "S", "T", "U", "V", "W", "X", "Y",
     "Z", "0", "1", "2", "3", "4", "5", "6", "7", "8", "9"}

RECURSIVE compiles_from(_, _, _, _)
\* re.compile of the pattern from index i on raises nothing; 'depth' groups are open and
\* 'repeatable' says that a character which a repeat can apply to ends right before i.
\* What create_regex never builds (other groups and escapes, classes, '.', anchors,
\* repeated groups, possessive repeats) is refused as well.
compiles_from(rx, i, depth, repeatable) ==
    IF i > Len(rx) THEN depth = 0
    ELSE IF repeat_at(rx, i).found
    THEN /\ repeatable /\ ~repeat_at(rx, i).err
         /\ \A next \in {repeat_at(rx, i).end} :
               ~repeat_at(rx, next).found /\ compiles_from(rx, next, depth, FALSE)
    ELSE IF rx[i] = "("
    THEN At(rx, i + 1, "?") /\ At(rx, i + 2, ":") /\ compiles_from(rx, i + 3, depth + 1, FALSE)
    ELSE IF rx[i] = ")"
    THEN depth > 0 /\ ~repeat_at(rx, i + 1).found /\ compiles_from(rx, i + 1, depth - 1, FALSE)
    ELSE IF rx[i] = "|" THEN compiles_from(rx, i + 1, depth, FALSE)
    ELSE IF rx[i] = "\\"
    THEN /\ i + 1 <= Len(rx) /\ (rx[i + 1] = "d" \/ rx[i + 1] \notin AlphaNumeric)
         /\ compiles_from(rx, i + 2, depth, TRUE)
    ELSE IF rx[i] \in {"[", ".", "^", "$"} THEN FALSE
    ELSE compiles_from(rx, i + 1, depth, TRUE)

RECURSIVE group_close(_, _, _)
\* the index of the ')' that closes the group which index i lies in (the index after the
\* pattern outside every group); 'depth' groups were opened on the way
group_close(rx, i, depth) ==
    IF i > Len(rx) THEN i
    ELSE IF rx[i] = "\\" THEN group_close(rx, i + 2, depth)
    ELSE IF rx[i] = "(" THEN group_close(rx, i + 1, depth + 1)
    ELSE IF rx[i] = ")"
    THEN IF depth = 0 THEN i ELSE group_close(rx, i + 1, depth - 1)
    ELSE group_close(rx, i + 1, depth)

RECURSIVE alternative_starts(_, _, _)
\* the indexes after the '|' that separate the alternatives of the group which index i
\* lies in
alternative_starts(rx, i, depth) ==
    IF i > Len(rx) THEN {}
    ELSE IF rx[i] = "\\" THEN alternative_starts(rx, i + 2, depth)
    ELSE IF rx[i] = "(" THEN alternative_starts(rx, i + 1, depth + 1)
    ELSE IF rx[i] = ")"
    THEN IF depth = 0 THEN {} ELSE alternative_starts(rx, i + 1, depth - 1)
    ELSE IF rx[i] = "|" /\ depth = 0 THEN {i + 1} \cup alternative_starts(rx, i + 1, depth)
    ELSE alternative_starts(rx, i + 1, depth)

\* the character c satisfies the literal or escape at index i of the pattern
matches_character(rx, i, c) ==
    IF rx[i] = "\\" THEN (IF rx[i + 1] = "d" THEN IsDigit(c) ELSE c = rx[i + 1])
    ELSE c = rx[i]

RECURSIVE match_from(_, _, _, _, _)
\* the pattern from index i on matches s from position p on, up to the end of s when
\* to_end (fullmatch) and up to any position otherwise (search)
match_from(rx, i, s, p, to_end) ==
    IF i > Len(rx) THEN ~to_end \/ p = Len(s) + 1
    ELSE IF rx[i] = ")" THEN match_from(rx, i + 1, s, p, to_end)
    ELSE IF rx[i] = "|" THEN match_from(rx, group_close(rx, i + 1, 0), s, p, to_end)
    ELSE IF rx[i] = "("
    THEN \E first \in {i + 3} \cup alternative_starts(rx, i + 3, 0) :
            match_from(rx, first, s, p, to_end)
    ELSE \E rep \in {repeat_at(rx, IF rx[i] = "\\" THEN i + 2 ELSE i + 1)} :
            \E q \in (p + rep.min)..(Len(s) + 1) :
                /\ rep.max = Unbounded \/ q - p <= rep.max
                /\ \A j \in p..(q - 1) : matches_character(rx, i, s[j])
                /\ match_from(rx, rep.end, s, q, to_end)

\* some alternative of the whole pattern matches s from position p on
match_at_position(pattern, s, p, to_end) ==
    \E first \in {1} \cup alternative_starts(pattern, 1, 0) :
        match_from(pattern, first, s, p, to_end)

ReError == Raise("re.error", "")

\* re.fullmatch(pattern, s) is not None
re_fullmatch(pattern, s) ==
    IF ~compiles_from(pattern, 1, 0, FALSE) THEN ReError
    ELSE Value(match_at_position(pattern, s, 1, TRUE))

\* re.search(pattern, s) is not None: a match from some position of s
re_search_pattern(pattern, s) ==
    IF ~compiles_from(pattern, 1, 0, FALSE) THEN ReError
    ELSE Value(\E p \in 1..(Len(s) + 1) : match_at_position(pattern, s, p, FALSE))

(***************************************************************************)
(* Seqname: a str whose value is the format_code translation of the string *)
(* it was made from, with a _Parser of that string.                        *)
(***************************************************************************)
RECURSIVE Text(_)
\* the characters of s as one string, for a message
Text(s) == IF s = <<>> THEN "" ELSE Head(s) \o Text(Tail(s))

\* Seqname(string): the value of the new str, or what __new__ raised
Seqname(s) ==
    LET parser == Parser(s)
    IN IF parser.found THEN Parser_translate(parser, "format_code")
       ELSE Raise("ValueError", "No framecode found in '" \o Text(s) \o "'")

\* Seqname(string).regex
Seqname_regex(s) == Parser_create_regex(Parser(s), "any")

\* format(n, "0<w>d"): the decimal digits, zero-padded after the sign to w characters
zero_padded(n, w) ==
    LET digits == StrNat(IF n < 0 THEN 0 - n ELSE n)
        sign == IF n < 0 THEN <<"-">> ELSE <<>>
        missing == w - Len(sign) - Len(digits)
    IN sign \o [i \in 1..(IF missing > 0 THEN missing ELSE 0) |-> "0"] \o digits

RECURSIVE format_from(_, _, _, _, _)
\* str.format(n) of the text t from index i on: 'fields' replacement fields were filled
\* and 'out' was written so far.  "{{" and "}}" stand for a brace, a field is "{}" or
\* "{:0<w>d}" (other fields are not among the values of a Seqname and are refused here);
\* a second field finds no argument.
format_from(t, i, n, fields, out) ==
    IF i > Len(t) THEN Value(out)
    ELSE IF t[i] = "}"
    THEN IF At(t, i + 1, "}") THEN format_from(t, i + 2, n, fields, Append(out, "}"))
         ELSE Raise("ValueError", "Single '}' encountered in format string")
    ELSE IF t[i] = "{"
    THEN IF At(t, i + 1, "{") THEN format_from(t, i + 2, n, fields, Append(out, "{"))
         ELSE IF i = Len(t) THEN Raise("ValueError", "Single '{' encountered in format string")
         ELSE IF fields >= 1 /\ (At(t, i + 1, "}") \/ At(t, i + 1, ":"))
         THEN Raise("IndexError",
                    "Replacement index 1 out of range for positional args tuple")
         ELSE IF At(t, i + 1, "}") THEN format_from(t, i + 2, n, fields + 1, out \o str(n))
         ELSE IF At(t, i + 1, ":") /\ At(t, i + 2, "0") /\ DigitsEnd(t, i + 3) > i + 3
                 /\ At(t, DigitsEnd(t, i + 3), "d") /\ At(t, DigitsEnd(t, i + 3) + 1, "}")
         THEN format_from(t, DigitsEnd(t, i + 3) + 2, n, fields + 1,
                  out \o zero_padded(n, IntDigits(SubSeq(t, i + 3, DigitsEnd(t, i + 3) - 1))))
         ELSE Raise("ValueError", "field not modelled")
    ELSE format_from(t, i + 1, n, fields, Append(out, t[i]))

\* Seqname.format(n): str.format on the value
Seqname_format(value, n) == format_from(value, 1, n, 0, <<>>)

\* Seqname(s).matches(string, strict)
Seqname_matches(s, other, strict_) ==
    LET found == IF strict_ THEN re_fullmatch(Seqname_regex(s).v, other)
                 ELSE re_search_pattern(Seqname_regex(s).v, other)
        other_seqname == Seqname(other)
    IN IF found # Value(FALSE) THEN found
       ELSE IF other_seqname.kind = "raise" THEN Value(FALSE)
       ELSE Value(Seqname(s).v = other_seqname.v)

(***************************************************************************)
(* FrameSequence and zip_sequences (src/frameparsing/sequences.py).        *)
(* sequences.py names the value type parsing.Template, which parsing.py    *)
(* does not define; the specification describes "Seqname"/"Template" as    *)
(* one component, modelled here by Seqname.  A path is written as the text *)
(* str(path).                                                              *)
(***************************************************************************)
\* parsing.Template(string)
Template(s) == Seqname(s)
\* Template.format(n) on the value of a Template
Template_format(value, n) == Seqname_format(value, n)
\* Template(s).matches(other)
Template_matches(s, other) == Seqname_matches(s, other, TRUE)

TypeErrorOf == Raise("TypeError", "")

\* {Path(frame) for frame in frames}
PathSet(names) == {PathStr(Path(f)) : f \in names}

\* sorted() can compare the frame numbers: a single frame is never compared
Sortable(paths) ==
    Cardinality(paths) < 2 \/ \A p \in paths : get_frame_number(p).kind = "value"

\* tuple(self): sorted(self.frames, key=get_frame_number).  The sort is stable and the
\* set is iterated in an order that depends on the hashes of its paths, so frames with
\* the same frame number come in any order.
SortedOrders(paths) ==
    {order \in [1..Cardinality(paths) -> paths] :
        /\ \A i, j \in 1..Cardinality(paths) : i # j => order[i] # order[j]
        /\ \A i \in 1..(Cardinality(paths) - 1) :
              get_frame_number(order[i]).v <= get_frame_number(order[i + 1]).v}

\* the checks of FrameSequence.__init__ once self.name = name is made and
\* matching[i] = self.name.matches(frame) is known for the i-th frame
FrameSequence_checked(order, name, matching) ==
    IF name.kind = "raise" THEN name
    ELSE IF \E i \in 1..Len(order) : matching[i] # Value(TRUE)
    THEN LET first == CHOOSE i \in 1..Len(order) :
                         /\ matching[i] # Value(TRUE)
                         /\ \A j \in 1..(i - 1) : matching[j] = Value(TRUE)
         IN Raise("ValueError", "Item '" \o Text(order[first])
                        \o "' does not match the format '" \o Text(name.v) \o "'")
    ELSE Value([frames |-> order, name |-> name.v,
                start |-> get_frame_number(order[1]),
                end |-> get_frame_number(order[Len(order)])])

\* FrameSequence(frames), the frames being iterated in the order 'order'
FrameSequence(order) ==
    IF order = <<>> THEN Raise("IndexError", "tuple index out of range")
    ELSE CHOOSE sequence \in
             {FrameSequence_checked(order, name, matching) :
                 name \in {Template(order[1])},
                 matching \in {[i \in 1..Len(order) |->
                                  Template_matches(order[1], order[i])] \o <<>>}} : TRUE

\* FrameSequence.get_frame(n, absolute), n being an int or None
FrameSequence_get_frame(seq, n, absolute) ==
    IF n.kind # "value" THEN Raise("TypeError", "'n' must be an integer.")
    ELSE IF absolute
    THEN LET frame_name == Template_format(seq.name, n.v)
         IN IF frame_name.kind = "raise" THEN frame_name
            ELSE IF \E i \in 1..Len(seq.frames) : seq.frames[i] = PathStr(Path(frame_name.v))
            THEN Value(PathStr(Path(frame_name.v)))
            ELSE None
    ELSE LET i == IF n.v < 0 THEN n.v + Len(seq.frames) + 1 ELSE n.v + 1
         IN IF i \in 1..Len(seq.frames) THEN Value(seq.frames[i]) ELSE None

\* end += 1 if step >= 0 else -1: the end of the range is inclusive
inclusive_end(to, by) == IF by >= 0 THEN to + 1 ELSE to - 1

\* FrameSequence.get_frames(start, end, step, absolute=absolute) without frame_range,
\* start and end being an int or None: the exception raised before the first frame,
\* if any, and what get_frame gives for each frame number of the range
FrameSequence_get_frames(seq, first, last, by, absolute) ==
    LET from == IF first.kind = "value" THEN first
                ELSE IF by >= 0 THEN (IF absolute THEN seq.start ELSE Value(0))
                ELSE (IF absolute THEN seq.end ELSE Value(Len(seq.frames) - 1))
        to == IF last.kind = "value" THEN last
              ELSE IF by >= 0 THEN (IF absolute THEN seq.end ELSE Value(Len(seq.frames) - 1))
              ELSE (IF absolute THEN seq.start ELSE Value(0))
    IN IF to.kind # "value" \/ from.kind # "value" THEN [setup |-> TypeErrorOf, items |-> <<>>]
       ELSE IF by = 0 THEN [setup |-> Raise("ValueError", "range() arg 3 must not be zero"),
                            items |-> <<>>]
       ELSE CHOOSE frames \in
                {[setup |-> None,
                  items |-> [j \in 1..Len(ns) |->
                                FrameSequence_get_frame(seq, Value(ns[j]), absolute)] \o <<>>] :
                    ns \in {range(from.v, inclusive_end(to.v, by), by) \o <<>>}} : TRUE

\* min() or max() of the values: they are compared when there are two or more
Extreme(values, lowest) ==
    IF Len(values) = 1 THEN values[1]
    ELSE IF \E i \in 1..Len(values) : values[i].kind # "value" THEN TypeErrorOf
    ELSE Value(CHOOSE v \in {values[i].v : i \in 1..Len(values)} :
                  \A i \in 1..Len(values) : IF lowest THEN v <= values[i].v ELSE v >= values[i].v)

\* what the k-th generator gives when zip asks it for its j-th frame
ZipEvent(gens, k, j) ==
    IF gens[k].setup.kind = "raise" THEN gens[k].setup
    ELSE IF j > Len(gens[k].items) THEN [kind |-> "stop"]
    ELSE gens[k].items[j]

\* zip(*gens) consumed: the generators are asked in turn for frame 1, then for frame 2,
\* ...; the first that stops ends the zip, the first that raises raises
Zip(gens) ==
    LET K == Len(gens)
        asked == {<<j, k>> : j \in 1..(Len(gens[1].items) + 1), k \in 1..K}
        stop == CHOOSE a \in asked :
                   /\ ZipEvent(gens, a[2], a[1]).kind \in {"raise", "stop"}
                   /\ \A b \in asked :
                         (b[1] < a[1] \/ (b[1] = a[1] /\ b[2] < a[2]))
                             => ZipEvent(gens, b[2], b[1]).kind \notin {"raise", "stop"}
    IN IF ZipEvent(gens, stop[2], stop[1]).kind = "raise"
       THEN ZipEvent(gens, stop[2], stop[1])
       ELSE Value([j \in 1..(stop[1] - 1) |-> [k \in 1..K |-> gens[k].items[j]]])

\* zip_sequences once start and end are set: None, or an int
zip_frames(seqs, from, to, by, absolute) ==
    IF from.kind = "raise" THEN from
    ELSE IF to.kind = "raise" THEN to
    ELSE CHOOSE groups \in
             {Zip(gens) :
                 gens \in {[k \in 1..Len(seqs) |->
                              FrameSequence_get_frames(seqs[k], from, to, by, absolute)]
                           \o <<>>}} : TRUE

\* list(zip_sequences(*seqs, start=first, end=last, step=by, absolute=absolute)) for at
\* least one sequence and without frame_range
zip_sequences(seqs, first, last, by, absolute) ==
    CHOOSE groups \in
        {zip_frames(seqs, from, to, by, absolute) :
            from \in {IF first.kind = "value" THEN first
                      ELSE IF by >= 0
                      THEN (IF absolute
                            THEN Extreme([k \in 1..Len(seqs) |-> seqs[k].start], TRUE)
                            ELSE Value(0))
                      ELSE (IF absolute
                            THEN Extreme([k \in 1..Len(seqs) |-> seqs[k].end], FALSE)
                            ELSE Extreme([k \in 1..Len(seqs) |-> Value(Len(seqs[k].frames))],
                                         FALSE))},
            to \in {IF last.kind = "value" THEN last
                    ELSE IF by >= 0
                    THEN (IF absolute
                          THEN Extreme([k \in 1..Len(seqs) |-> seqs[k].end], FALSE)
                          ELSE Extreme([k \in 1..Len(seqs) |-> Value(Len(seqs[k].frames))],
                                       FALSE))
                    ELSE (IF absolute
                          THEN Extreme([k \in 1..Len(seqs) |-> seqs[k].start], TRUE)
                          ELSE Value(0))}} : TRUE

(***************************************************************************)
(* The filename functions as calls: the caller holds a string and calls    *)
(* one of the functions on it.                                             *)
(***************************************************************************)
\* the fragments a filename argument is assembled from
Fragments == {<<"a">>, <<"7">>, <<"0">>, <<"-">>, <<"#">>, <<".">>, <<"/">>, <<"d">>,
              <<"%", "0">>, <<"{", ":", "0">>, <<"}">>,
              <<"%", "0", "2", "d">>, <<"{", ":", "0", "3", "d", "}">>}
NameStrings == {Cat(ps) : ps \in UNION {[1..n -> Fragments] : n \in 0..MaxParts}}

Replacements == {<<>>, <<"9", "9">>}
TargetTypes == {"format_code", "modulo", "numbersign", "digits", "regex", "hash"}

NumbersIdle ==
    /\ numbers = <<>> /\ text = <<>> /\ abc = NoArgs
    /\ formatted = NoText /\ parsed = NoValues /\ reformatted = NoText

InitNames ==
    /\ pc = "call"
    /\ string \in NameStrings
    /\ fn = "" /\ repl = <<>> /\ to_type = "" /\ ret = None
    /\ NumbersIdle /\ MatchIdle

Return(name, value) ==
    /\ pc = "call"
    /\ pc' = "returned"
    /\ fn' = name
    /\ ret' = value
    /\ UNCHANGED string /\ UNCHANGED numberVars /\ UNCHANGED sequenceVars /\ UNCHANGED matchVars

GetFramecode == Return("get_framecode", get_framecode(string)) /\ UNCHANGED <<repl, to_type>>

GetFrameNumber ==
    Return("get_frame_number", get_frame_number(string)) /\ UNCHANGED <<repl, to_type>>

HasFramecode == Return("has_framecode", has_framecode(string)) /\ UNCHANGED <<repl, to_type>>

GetFramecodeType ==
    Return("get_framecode_type", get_framecode_type(string)) /\ UNCHANGED <<repl, to_type>>

GetFramecodeWidth ==
    Return("get_framecode_width", get_framecode_width(string)) /\ UNCHANGED <<repl, to_type>>

ReplaceFramecode ==
    \E r \in Replacements :
        /\ Return("replace_framecode", replace_framecode(string, r))
        /\ repl' = r
        /\ UNCHANGED to_type

TranslateFramecode ==
    \E t \in TargetTypes :
        /\ Return("translate_framecode", translate_framecode(string, t))
        /\ to_type' = t
        /\ UNCHANGED repl

NextNames ==
    \/ GetFramecode \/ GetFrameNumber \/ HasFramecode \/ GetFramecodeType
    \/ GetFramecodeWidth \/ ReplaceFramecode \/ TranslateFramecode

SpecNames == InitNames /\ [][NextNames]_vars

(***************************************************************************)
(* generate_framecode as a call: the caller holds a type name and a width.  *)
(***************************************************************************)
Widths == (0 - 2)..MaxWidth

InitGenerate ==
    /\ pc = "call"
    /\ to_type \in TargetTypes
    /\ arg_width \in Widths
    /\ string = <<>> /\ fn = "" /\ repl = <<>> /\ ret = None
    /\ policy = "" /\ regex = None /\ seqname = None /\ frame = 0
    /\ candidate = <<>> /\ strict = TRUE /\ translated = None
    /\ NumbersIdle /\ SequencesIdle

GenerateFramecode ==
    /\ pc = "call"
    /\ pc' = "returned"
    /\ fn' = "generate_framecode"
    /\ ret' = generate_framecode(to_type, arg_width)
    /\ UNCHANGED <<string, repl, to_type>> /\ UNCHANGED numberVars /\ UNCHANGED sequenceVars /\ UNCHANGED matchVars

NextGenerate == GenerateFramecode

SpecGenerate == InitGenerate /\ [][NextGenerate]_vars

(***************************************************************************)
(* create_regex as a call, and the pattern it returned matched against a   *)
(* text with re.fullmatch: the name itself, the name with its framecode    *)
(* replaced by a number, the name in another directory or with another     *)
(* extension.                                                              *)
(***************************************************************************)
\* the fragments the filenames given to create_regex and Seqname are assembled from
PathFragments == {<<"a">>, <<"7">>, <<"0", "7">>, <<"-">>, <<"#">>, <<"/">>, <<"a", "/">>,
                  <<".", "x">>, <<"%", "0", "1", "d">>, <<"%", "0", "0", "d">>,
                  <<"{", ":", "0", "3", "d", "}">>}
PathStrings == {Cat(ps) : ps \in UNION {[1..n -> PathFragments] : n \in 0..MaxParts}}

WidthOptions == {"any", "min", "max", "exact", "all"}

\* "1" * n
Ones(n) == [i \in 1..(IF n > 0 THEN n ELSE 0) |-> "1"]

\* the numbers put in the place of a framecode of width w: w digits, a minus sign and
\* w - 1 digits, w + 1 digits, w - 1 digits
NumberTexts(w) == {Ones(w), <<"-">> \o Ones(w - 1), Ones(w + 1), Ones(w - 1)}

OtherDirectories == {<<>>, <<"e">>, <<"/">>, <<"/", "/">>}
OtherSuffixes == {<<>>, <<".", "y">>}

\* str(Path(directory) / Path(s).name) for the directories other than the parent of s
InOtherDirectory(s) ==
    {PathStr(PathJoin(Path(directory), PathName(Path(s)))) :
        directory \in {d \in OtherDirectories : Path(d) # PathParent(Path(s))}}

\* str(Path(s).with_suffix(suffix)) for the suffixes other than the one of s
WithOtherSuffix(s) ==
    {PathStr(PathWithSuffix(Path(s), suffix)) :
        suffix \in {e \in OtherSuffixes : e # PathSuffix(Path(s))}}

\* replace_framecode(s, number) for the numbers above
WithOtherNumber(s) ==
    {replace_framecode(s, number).v : number \in NumberTexts(get_framecode_width(s).v)}

\* the texts a pattern made from s is matched against
Candidates(s) ==
    IF Parser(s).found
    THEN {s} \cup WithOtherNumber(s) \cup InOtherDirectory(s) \cup WithOtherSuffix(s)
    ELSE {s}

InitRegex ==
    /\ pc = "call"
    /\ string \in PathStrings
    /\ fn = "" /\ repl = <<>> /\ to_type = "" /\ ret = None
    /\ NumbersIdle /\ MatchIdle

CreateRegex ==
    /\ pc = "call"
    /\ \E o \in WidthOptions :
          /\ policy' = o
          /\ regex' = create_regex(string, o)
    /\ fn' = "create_regex"
    /\ pc' = IF regex'.kind = "value" THEN "regex" ELSE "raised"
    /\ UNCHANGED <<string, repl, to_type, ret>> /\ UNCHANGED numberVars /\ UNCHANGED sequenceVars
    /\ UNCHANGED <<arg_width, seqname, frame, candidate, strict, translated>>

Fullmatch ==
    /\ pc = "regex"
    /\ \E c \in Candidates(string) :
          /\ candidate' = c
          /\ ret' = re_fullmatch(regex.v, c)
    /\ fn' = "fullmatch"
    /\ pc' = "matched"
    /\ UNCHANGED <<string, repl, to_type>> /\ UNCHANGED numberVars /\ UNCHANGED sequenceVars
    /\ UNCHANGED <<arg_width, policy, regex, seqname, frame, strict, translated>>

NextRegex == CreateRegex \/ Fullmatch

SpecRegex == InitRegex /\ [][NextRegex]_vars

(***************************************************************************)
(* A Seqname made from a filename, then asked whether it matches a text    *)
(* (the filename itself, or the filename between "FOO" and "BAR"), or      *)
(* formatted with a frame number and the result matched against its regex  *)
(* and passed to matches().                                                *)
(***************************************************************************)
\* the frame numbers a Seqname is formatted with
FrameNumbers == {0, 1, 0 - 1, 999, 220349353, 0 - 20}

\* "FOO" + s + "BAR"
Embedded(s) == <<"F", "O", "O">> \o s \o <<"B", "A", "R">>

InitSeqname ==
    /\ pc = "new"
    /\ string \in PathStrings
    /\ fn = "" /\ repl = <<>> /\ to_type = "" /\ ret = None
    /\ NumbersIdle /\ MatchIdle

Construct ==
    /\ pc = "new"
    /\ seqname' = Seqname(string)
    /\ regex' = IF seqname'.kind = "value" THEN Seqname_regex(string) ELSE None
    /\ fn' = "Seqname"
    /\ pc' = IF seqname'.kind = "value" THEN "constructed" ELSE "raised"
    /\ UNCHANGED <<string, repl, to_type, ret>> /\ UNCHANGED numberVars /\ UNCHANGED sequenceVars
    /\ UNCHANGED <<arg_width, policy, frame, candidate, strict, translated>>

Matches ==
    /\ pc = "constructed"
    /\ \E c \in {string, Embedded(string)}, b \in BOOLEAN :
          /\ candidate' = c
          /\ strict' = b
          /\ ret' = Seqname_matches(string, c, b)
    /\ fn' = "matches"
    /\ pc' = "matched"
    /\ UNCHANGED <<string, repl, to_type>> /\ UNCHANGED numberVars /\ UNCHANGED sequenceVars
    /\ UNCHANGED <<arg_width, policy, regex, seqname, frame, translated>>

Format ==
    /\ pc = "constructed"
    /\ \E n \in FrameNumbers :
          /\ frame' = n
          /\ \E formatted_name \in {Seqname_format(seqname.v, n)} :
                IF formatted_name.kind = "value"
                THEN candidate' = formatted_name.v /\ ret' = ret /\ pc' = "formatted"
                ELSE candidate' = candidate /\ ret' = formatted_name /\ pc' = "format_raised"
    /\ fn' = "format"
    /\ UNCHANGED <<string, repl, to_type>> /\ UNCHANGED numberVars /\ UNCHANGED sequenceVars
    /\ UNCHANGED <<arg_width, policy, regex, seqname, strict, translated>>

FullmatchFormatted ==
    /\ pc = "formatted"
    /\ ret' = re_fullmatch(regex.v, candidate)
    /\ fn' = "fullmatch"
    /\ pc' = "format_matched"
    /\ UNCHANGED <<string, repl, to_type>> /\ UNCHANGED numberVars /\ UNCHANGED sequenceVars /\ UNCHANGED matchVars

MatchesFormatted ==
    /\ pc = "formatted"
    /\ ret' = Seqname_matches(string, candidate, TRUE)
    /\ fn' = "matches"
    /\ pc' = "format_matched"
    /\ UNCHANGED <<string, repl, to_type>> /\ UNCHANGED numberVars /\ UNCHANGED sequenceVars /\ UNCHANGED matchVars

NextSeqname == Construct \/ Matches \/ Format \/ FullmatchFormatted \/ MatchesFormatted

SpecSeqname == InitSeqname /\ [][NextSeqname]_vars

(***************************************************************************)
(* translate_framecode applied to a filename, then to its own result.      *)
(***************************************************************************)
\* the framecode types that have a generate_framecode function
GeneratableTypes == {"format_code", "modulo", "numbersign"}

InitTranslate ==
    /\ pc = "translate"
    /\ string \in PathStrings
    /\ fn = "" /\ repl = <<>> /\ to_type = "" /\ ret = None
    /\ NumbersIdle /\ MatchIdle

TranslateFirst ==
    /\ pc = "translate"
    /\ \E t1 \in GeneratableTypes :
          /\ policy' = t1
          /\ translated' = translate_framecode(string, t1)
    /\ fn' = "translate_framecode"
    /\ pc' = IF translated'.kind = "value" THEN "translated" ELSE "raised"
    /\ UNCHANGED <<string, repl, to_type, ret>> /\ UNCHANGED numberVars /\ UNCHANGED sequenceVars
    /\ UNCHANGED <<arg_width, regex, seqname, frame, candidate, strict>>

TranslateSecond ==
    /\ pc = "translated"
    /\ \E t2 \in GeneratableTypes :
          /\ to_type' = t2
          /\ ret' = translate_framecode(translated.v, t2)
    /\ pc' = "translated_twice"
    /\ UNCHANGED <<string, fn, repl>> /\ UNCHANGED numberVars /\ UNCHANGED sequenceVars /\ UNCHANGED matchVars

NextTranslate == TranslateFirst \/ TranslateSecond

SpecTranslate == InitTranslate /\ [][NextTranslate]_vars

(***************************************************************************)
(* parse_numbers on a text of digits, signs, 'x', commas, spaces and other *)
(* characters, and on three integers separated by single spaces.           *)
(***************************************************************************)
\* the characters the texts are written with
TextChars == {"0", "1", "2", "-", "x", ",", " ", "a"}
TextInputs == UNION {[1..n -> TextChars] : n \in 0..MaxText}

SpacedArgs == {[kind |-> "spaced", a |-> a, b |-> b, c |-> c] :
                  a \in NumVals, b \in NumVals, c \in NumVals}
\* f"{a} {b} {c}"
SpacedText(a, b, c) == str(a) \o <<" ">> \o str(b) \o <<" ">> \o str(c)

InitParse ==
    /\ pc = "parse"
    /\ numbers = <<>>
    /\ formatted = NoText /\ parsed = NoValues /\ reformatted = NoText
    /\ NamesIdle
    /\ \/ abc = [kind |-> "text"] /\ text \in TextInputs
       \/ abc \in SpacedArgs /\ text = SpacedText(abc.a, abc.b, abc.c)

NextParse == ParseText

SpecParse == InitParse /\ [][NextParse]_vars

(***************************************************************************)
(* A frame of a filename is produced with Seqname(string).format(n) and    *)
(* matched against create_regex(string, "min") or create_regex(string,     *)
(* "exact").                                                               *)
(***************************************************************************)
BoundedWidthOptions == {"min", "exact"}

InitProduce ==
    /\ pc = "produce"
    /\ string \in PathStrings
    /\ fn = "" /\ repl = <<>> /\ to_type = "" /\ ret = None
    /\ NumbersIdle /\ MatchIdle

\* Seqname(string).format(n)
ProduceFrame ==
    /\ pc = "produce"
    /\ seqname' = Seqname(string)
    /\ \E n \in FrameNumbers :
          /\ frame' = n
          /\ \E produced \in {IF seqname'.kind = "value" THEN Seqname_format(seqname'.v, n)
                              ELSE seqname'} :
                IF produced.kind = "value"
                THEN candidate' = produced.v /\ ret' = ret /\ pc' = "produced"
                ELSE candidate' = candidate /\ ret' = produced /\ pc' = "produce_raised"
    /\ fn' = "format"
    /\ UNCHANGED <<string, repl, to_type>> /\ UNCHANGED numberVars /\ UNCHANGED sequenceVars
    /\ UNCHANGED <<arg_width, policy, regex, strict, translated>>

\* create_regex(string, "min") or create_regex(string, "exact")
CreateBoundedRegex ==
    /\ pc = "produced"
    /\ \E o \in BoundedWidthOptions :
          /\ policy' = o
          /\ regex' = create_regex(string, o)
    /\ fn' = "create_regex"
    /\ pc' = IF regex'.kind = "value" THEN "bounded_regex" ELSE "bounded_raised"
    /\ UNCHANGED <<string, repl, to_type, ret>> /\ UNCHANGED numberVars /\ UNCHANGED sequenceVars
    /\ UNCHANGED <<arg_width, seqname, frame, candidate, strict, translated>>

\* re.fullmatch(regex, produced frame)
FullmatchProduced ==
    /\ pc = "bounded_regex"
    /\ ret' = re_fullmatch(regex.v, candidate)
    /\ fn' = "fullmatch"
    /\ pc' = "produced_matched"
    /\ UNCHANGED <<string, repl, to_type>> /\ UNCHANGED numberVars /\ UNCHANGED sequenceVars
    /\ UNCHANGED matchVars

NextProduce == ProduceFrame \/ CreateBoundedRegex \/ FullmatchProduced

SpecProduce == InitProduce /\ [][NextProduce]_vars

(***************************************************************************)
(* Frame sequences: sequences are constructed from sets of filenames, then *)
(* zipped with the default start and end, or asked for one of their frames *)
(* by its frame number.                                                    *)
(***************************************************************************)
\* the filenames the sequences are made of
FrameNames ==
    {<<"f", "0", "8">>, <<"f", "9">>, <<"f", "0", "9">>, <<"f", "1", "0">>,
     <<"f", "0", "7", ".", "e">>, <<"g", "9">>, <<"f", "#">>,
     <<"/", "f", "7">>, <<"/", "f", "1", "0">>}
FrameSets == {names \in SUBSET FrameNames : Cardinality(names) <= MaxFrames}

\* the step given to zip_sequences
ZipSteps == {1, 2, 0, 0 - 1}

\* FrameSequence(names) for each set of names: what each order of iteration makes
Constructions ==
    UNION {IF Sortable(PathSet(names))
           THEN {[names |-> names, made |-> FrameSequence(order)] :
                    order \in SortedOrders(PathSet(names))}
           ELSE {[names |-> names, made |-> TypeErrorOf]} : names \in FrameSets}

InitSequences ==
    /\ pc = "sequences"
    /\ NumbersIdle /\ NamesIdle

\* FrameSequence(names)
NewFrameSequence ==
    /\ pc = "sequences"
    /\ Len(sequences) < MaxSequences
    /\ \E construction \in Constructions : made' = construction.made
    /\ sequences' = IF made'.kind = "value" THEN Append(sequences, made'.v) ELSE sequences
    /\ UNCHANGED <<pc, arg_absolute, arg_step, zipped, looked_up>>
    /\ UNCHANGED numberVars /\ UNCHANGED nameVars /\ UNCHANGED matchVars

\* list(zip_sequences(*sequences, step=step, absolute=absolute))
ZipSequences ==
    /\ pc = "sequences"
    /\ sequences # <<>>
    /\ \E absolute \in BOOLEAN, by \in ZipSteps :
          /\ arg_absolute' = absolute
          /\ arg_step' = by
          /\ zipped' = zip_sequences(sequences, None, None, by, absolute)
    /\ pc' = "zipped"
    /\ UNCHANGED <<sequences, made, looked_up>>
    /\ UNCHANGED numberVars /\ UNCHANGED nameVars /\ UNCHANGED matchVars

\* sequence.get_frame(get_frame_number(p)) for a frame p of the sequence made last
GetFrame ==
    /\ pc = "sequences"
    /\ sequences # <<>>
    /\ \E i \in 1..Len(sequences[Len(sequences)].frames) :
          \E p \in {sequences[Len(sequences)].frames[i]} :
             looked_up' = [frame |-> p, n |-> get_frame_number(p),
                           result |-> FrameSequence_get_frame(sequences[Len(sequences)],
                                                              get_frame_number(p), TRUE)]
    /\ pc' = "looked_up"
    /\ UNCHANGED <<sequences, made, arg_absolute, arg_step, zipped>>
    /\ UNCHANGED numberVars /\ UNCHANGED nameVars /\ UNCHANGED matchVars

NextSequences == NewFrameSequence \/ ZipSequences \/ GetFrame

SpecSequences == InitSequences /\ [][NextSequences]_vars

Init == InitNumbers \/ InitNames \/ InitGenerate \/ InitRegex \/ InitSeqname
           \/ InitTranslate \/ InitParse \/ InitProduce \/ InitSequences
Next == NextNumbers \/ NextNames \/ NextGenerate \/ NextRegex \/ NextSeqname
           \/ NextTranslate \/ NextParse \/ NextProduce \/ NextSequences
Spec == Init /\ [][Next]_vars

(***************************************************************************)
(* Properties of framecode detection (SpecNames).  Where each pattern      *)
(* occurs in a stem is stated here directly, without a search.             *)
(***************************************************************************)
Stem == PathStem(Path(string))

\* "{:0", one or more digits, any number of 'd', "}" somewhere in s
Occurs_format_code(s) ==
    \E i \in 1..Len(s) :
        /\ s[i] = "{"
        /\ \E n \in 1..(Len(s) - i - 3) :
              /\ s[i + 1] = ":" /\ s[i + 2] = "0"
              /\ \A k \in (i + 3)..(i + 2 + n) : IsDigit(s[k])
              /\ \E m \in 0..(Len(s) - i - 3 - n) :
                    /\ \A k \in (i + 3 + n)..(i + 2 + n + m) : s[k] = "d"
                    /\ s[i + 3 + n + m] = "}"

\* "%0", one or more digits, "d" somewhere in s
Occurs_modulo(s) ==
    \E i \in 1..Len(s) :
        /\ s[i] = "%"
        /\ \E n \in 1..(Len(s) - i - 2) :
              /\ s[i + 1] = "0"
              /\ \A k \in (i + 2)..(i + 1 + n) : IsDigit(s[k])
              /\ s[i + 2 + n] = "d"

Occurs_numbersign(s) == \E i \in 1..Len(s) : s[i] = "#"
Occurs_digits(s) == \E i \in 1..Len(s) : IsDigit(s[i])

NoFramecode(s) ==
    ~Occurs_format_code(s) /\ ~Occurs_modulo(s) /\ ~Occurs_numbersign(s) /\ ~Occurs_digits(s)

Called(name) == pc = "returned" /\ fn = name

\* C7: the detected type is the first of format_code, modulo, numbersign, digits whose
\* pattern occurs anywhere in the stem, wherever in the stem each of them occurs.
C7_DetectionPriority ==
    Called("get_framecode_type") =>
        ret = IF Occurs_format_code(Stem) THEN Value("format_code")
              ELSE IF Occurs_modulo(Stem) THEN Value("modulo")
              ELSE IF Occurs_numbersign(Stem) THEN Value("numbersign")
              ELSE IF Occurs_digits(Stem) THEN Value("digits")
              ELSE None

\* C7 witness: a modulo code comes first in the stem, a format code after it, and
\* format_code is reported
C7_Witness ==
    /\ Called("get_framecode_type")
    /\ Len(Stem) > 0 /\ Stem[1] = "%" /\ Occurs_modulo(Stem) /\ Occurs_format_code(Stem)
    /\ ret = Value("format_code")

\* C8: for every string in which a framecode is detected, get_framecode_width returns
\* an integer >= 1.
C8_WidthAtLeastOne ==
    (Called("get_framecode_width") /\ ~NoFramecode(Stem))
        => ret.kind = "value" /\ ret.v >= 1

\* the last run of digits of s, as the pair of its first and last index
LastDigitRun(s) ==
    CHOOSE r \in (1..Len(s)) \X (1..Len(s)) :
        /\ r[1] <= r[2]
        /\ \A k \in r[1]..r[2] : IsDigit(s[k])
        /\ \A k \in (r[2] + 1)..Len(s) : ~IsDigit(s[k])
        /\ r[1] > 1 => ~IsDigit(s[r[1] - 1])

\* the integer the last run of digits stands for, a '-' right before it included
LastNumber(s) ==
    LET r == LastDigitRun(s)
        n == IntDigits(SubSeq(s, r[1], r[2]))
    IN IF r[1] > 1 /\ s[r[1] - 1] = "-" THEN 0 - n ELSE n

\* C9: get_frame_number returns the signed integer value of the matched digits when the
\* detected type is digits, and None (raising nothing) for a format_code, modulo or
\* numbersign framecode and for a string without a framecode.
C9_FrameNumberOnlyForDigits ==
    Called("get_frame_number") =>
        ret = IF Occurs_format_code(Stem) \/ Occurs_modulo(Stem) \/ Occurs_numbersign(Stem)
                 \/ ~Occurs_digits(Stem)
              THEN None
              ELSE Value(LastNumber(Stem))

\* C9 witness: a negative frame number was returned
C9_Witness ==
    /\ Called("get_frame_number")
    /\ ret.kind = "value" /\ ret.v < 0

\* C10: when no pattern occurs in the stem, get_framecode, get_framecode_type and
\* get_framecode_width return None, has_framecode returns False, and replace_framecode
\* and translate_framecode return the string unchanged for every repl and to_type;
\* none of them raises.
C10_NoFramecodeFallback ==
    (pc = "returned" /\ NoFramecode(Stem)) =>
        /\ fn \in {"get_framecode", "get_framecode_type", "get_framecode_width"}
              => ret = None
        /\ fn = "has_framecode" => ret = Value(FALSE)
        /\ fn \in {"replace_framecode", "translate_framecode"} => ret = Value(string)

\* C10 witness: a string with digits in its directory only, and a to_type that is no
\* framecode type, came back unchanged from translate_framecode
C10_Witness ==
    /\ Called("translate_framecode") /\ to_type = "hash"
    /\ NoFramecode(Stem) /\ Occurs_digits(string)
    /\ ret = Value(string)

CannotGenerateDigits == Raise("ValueError", "Cannot generate framecode of type 'digits'")

\* C11: for every string that contains a framecode, translate_framecode(s, "digits")
\* raises ValueError "Cannot generate framecode of type 'digits'" and returns no string.
C11_TranslateToDigitsUnsupported ==
    (Called("translate_framecode") /\ to_type = "digits" /\ ~NoFramecode(Stem))
        => ret = CannotGenerateDigits

\* for the framecodes of width 1 and more that is the error raised: only width 0 differs
TranslateToDigitsPositiveWidth ==
    (Called("translate_framecode") /\ to_type = "digits" /\ ~NoFramecode(Stem)
        /\ get_framecode_width(string).v >= 1)
        => ret = CannotGenerateDigits

(***************************************************************************)
(* Properties of generate_framecode (SpecGenerate).                        *)
(***************************************************************************)
WidthMustBePositive == Raise("ValueError", "'width' must be positive.")

\* the decimal numeral of n >= 1: digits with the value n and no leading zero
IsNumeral(digits, n) ==
    /\ Len(digits) >= 1 /\ \A i \in 1..Len(digits) : IsDigit(digits[i])
    /\ digits[1] # "0" /\ IntDigits(digits) = n

\* s is the text 'before', the numeral of n, the text 'after'
IsAround(s, before, n, after) ==
    /\ Len(s) > Len(before) + Len(after)
    /\ SubSeq(s, 1, Len(before)) = before
    /\ SubSeq(s, Len(s) - Len(after) + 1, Len(s)) = after
    /\ IsNumeral(SubSeq(s, Len(before) + 1, Len(s) - Len(after)), n)

\* C12: generate_framecode(T, w) raises ValueError "'width' must be positive." for every
\* w < 1; for w >= 1 it raises another ValueError when T is not format_code, modulo or
\* numbersign (an unknown name, or digits), and otherwise returns "{:0wd}", "%0wd" or
\* w '#' characters.
C12_GenerateFramecode ==
    Called("generate_framecode") =>
        IF arg_width < 1 THEN ret = WidthMustBePositive
        ELSE IF to_type \notin {"format_code", "modulo", "numbersign"}
        THEN ret.kind = "raise" /\ ret.exc = "ValueError" /\ ret # WidthMustBePositive
        ELSE /\ ret.kind = "value"
             /\ to_type = "format_code"
                   => IsAround(ret.v, <<"{", ":", "0">>, arg_width, <<"d", "}">>)
             /\ to_type = "modulo" => IsAround(ret.v, <<"%", "0">>, arg_width, <<"d">>)
             /\ to_type = "numbersign"
                   => Len(ret.v) = arg_width /\ \A i \in 1..Len(ret.v) : ret.v[i] = "#"

\* C12 witness: a placeholder of a two-digit width was returned
C12_Witness ==
    /\ Called("generate_framecode") /\ arg_width >= 10
    /\ to_type = "format_code" /\ ret.kind = "value" /\ Len(ret.v) = 7

(***************************************************************************)
(* Properties of create_regex (SpecRegex).                                 *)
(***************************************************************************)
Matched == pc = "matched" /\ policy \in {"any", "min", "max", "exact"}

DigitsDetected ==
    /\ Occurs_digits(Stem) /\ ~Occurs_format_code(Stem)
    /\ ~Occurs_modulo(Stem) /\ ~Occurs_numbersign(Stem)

\* the width of the framecode detected in the string
DetectedWidth == get_framecode_width(string).v

\* the string with its framecode replaced by a number
Renumbered(number) == replace_framecode(string, number).v

\* the string is written the way str(Path(string)) writes it
Normalised == PathStr(Path(string)) = string

\* the file lies directly in a root directory, "/" or "//"
InRoot == Path(string).root # <<>> /\ Len(Path(string).parts) = 1

\* one match of the convention's pattern in the stem, no more
SingleFramecode ==
    PathStem(Path(Renumbered(<<"a">>))) =
        SubSeq(Stem, 1, Parser(string).match.start - 1) \o <<"a">>
            \o SubSeq(Stem, Parser(string).match.end, Len(Stem))

\* C13: for every filename whose framecode is a raw frame number and every width option
\* any, min, max, exact, create_regex returns a valid pattern that full-matches the
\* filename itself.
C13_SelfMatch ==
    (Matched /\ DigitsDetected /\ candidate = string) => ret = Value(TRUE)

\* outside the two failures (option max at width 1, a file directly in a root directory)
\* a filename in normal form is matched by its own pattern
SelfMatchElsewhere ==
    (Matched /\ DigitsDetected /\ candidate = string /\ Normalised /\ ~InRoot
        /\ ~(policy = "max" /\ DetectedWidth = 1))
        => ret = Value(TRUE)

\* C14: with the option exact and a framecode of width w, the pattern accepts the name
\* with the framecode replaced by w digits or by a minus sign and w - 1 digits, and
\* rejects it with the framecode replaced by w + 1 digits or by w - 1 digits.
C14_ExactWidth ==
    (Matched /\ policy = "exact" /\ ~NoFramecode(Stem)) =>
        /\ candidate = Renumbered(Ones(DetectedWidth)) => ret = Value(TRUE)
        /\ candidate = Renumbered(<<"-">> \o Ones(DetectedWidth - 1)) => ret = Value(TRUE)
        /\ candidate = Renumbered(Ones(DetectedWidth + 1)) => ret = Value(FALSE)
        /\ candidate = Renumbered(Ones(DetectedWidth - 1)) => ret = Value(FALSE)

\* the same for a single framecode of width 1 or more, outside a root directory
ExactWidthElsewhere ==
    (Matched /\ policy = "exact" /\ ~NoFramecode(Stem)
        /\ ~InRoot /\ SingleFramecode /\ DetectedWidth >= 1) =>
        /\ candidate = Renumbered(Ones(DetectedWidth)) => ret = Value(TRUE)
        /\ candidate = Renumbered(<<"-">> \o Ones(DetectedWidth - 1)) => ret = Value(TRUE)
        /\ candidate = Renumbered(Ones(DetectedWidth + 1)) => ret = Value(FALSE)
        /\ candidate = Renumbered(Ones(DetectedWidth - 1)) => ret = Value(FALSE)

\* C15: for a framecode of width w >= 1, with the frame number replaced by w + 1 digits
\* (widened) or w - 1 digits (narrowed): min accepts widened and rejects narrowed, max
\* accepts narrowed and rejects widened, any accepts both.
C15_MinMaxAny ==
    (Matched /\ ~NoFramecode(Stem) /\ DetectedWidth >= 1) =>
        /\ candidate = Renumbered(Ones(DetectedWidth + 1))
              => ret = Value(policy \in {"min", "any"})
        /\ candidate = Renumbered(Ones(DetectedWidth - 1))
              => ret = Value(policy \in {"max", "any"})

\* the same for a single framecode of width 2 or more, outside a root directory
MinMaxAnyElsewhere ==
    (Matched /\ ~NoFramecode(Stem) /\ ~InRoot /\ SingleFramecode /\ DetectedWidth >= 2) =>
        /\ candidate = Renumbered(Ones(DetectedWidth + 1))
              => ret = Value(policy \in {"min", "any"})
        /\ candidate = Renumbered(Ones(DetectedWidth - 1))
              => ret = Value(policy \in {"max", "any"})

\* C16: the pattern full-matches no path with the same name in another parent directory
\* and no path that differs from the filename in its extension only; for a filename
\* without a directory the pattern holds no separator.
C16_AnchoredToDirectoryAndExtension ==
    /\ (Matched /\ ~NoFramecode(Stem)
           /\ candidate \in InOtherDirectory(string) \cup WithOtherSuffix(string))
          => ret # Value(TRUE)
    /\ (pc = "regex" /\ ~NoFramecode(Stem) /\ ~Contains(string, "/"))
          => ~Contains(regex.v, "/")

\* outside a root directory it is so
AnchoredElsewhere ==
    /\ (Matched /\ ~NoFramecode(Stem) /\ ~InRoot
           /\ candidate \in InOtherDirectory(string) \cup WithOtherSuffix(string))
          => ret # Value(TRUE)
    /\ (pc = "regex" /\ ~NoFramecode(Stem) /\ ~Contains(string, "/"))
          => ~Contains(regex.v, "/")

(***************************************************************************)
(* Properties of Seqname (SpecSeqname).                                    *)
(***************************************************************************)
\* the Seqname was asked whether it matches the filename it was made from (strict)
MatchesOriginal == pc = "matched" /\ fn = "matches" /\ candidate = string /\ strict

\* C17: for every filename in which a framecode is detected, constructing Seqname(f)
\* succeeds and Seqname(f).matches(f) is true.
C17_SeqnameMatchesOriginal ==
    ~NoFramecode(Stem) =>
        /\ fn = "Seqname" => seqname.kind = "value"
        /\ MatchesOriginal => ret = Value(TRUE)

\* a framecode of width at least 1 makes a Seqname that matches its own filename
SeqnameMatchesOriginalPositiveWidth ==
    (~NoFramecode(Stem) /\ DetectedWidth >= 1) =>
        /\ fn = "Seqname" => seqname.kind = "value"
        /\ MatchesOriginal => ret = Value(TRUE)

\* a filename without a framecode makes no Seqname
NoSeqnameWithoutFramecode ==
    (NoFramecode(Stem) /\ fn = "Seqname") =>
        seqname = Raise("ValueError", "No framecode found in '" \o Text(string) \o "'")

(***************************************************************************)
(* Properties of translate_framecode applied twice (SpecTranslate).        *)
(***************************************************************************)
\* the stem holds placeholders of one generatable convention at most
OneConvention ==
    /\ ~(Occurs_format_code(Stem) /\ Occurs_modulo(Stem))
    /\ ~(Occurs_format_code(Stem) /\ Occurs_numbersign(Stem))
    /\ ~(Occurs_modulo(Stem) /\ Occurs_numbersign(Stem))

\* C18: for every filename that contains a framecode and all conventions T1, T2 among
\* format_code, modulo, numbersign, translating to T1 and then to T2 gives what
\* translating to T2 directly gives; Seqname(f) is the format_code translation of f.
C18_TranslationIndependentOfSource ==
    ~NoFramecode(Stem) =>
        /\ fn = "translate_framecode" => translated.kind = "value"
        /\ pc = "translated_twice" => ret = translate_framecode(string, to_type)
        /\ fn = "translate_framecode" => Seqname(string) = translate_framecode(string, "format_code")

\* with one framecode of width at least 1 and placeholders of one convention in the
\* stem, the translation is independent of the convention it goes through
TranslationIndependentElsewhere ==
    (~NoFramecode(Stem) /\ DetectedWidth >= 1 /\ OneConvention /\ SingleFramecode) =>
        /\ fn = "translate_framecode" => translated.kind = "value"
        /\ pc = "translated_twice" => ret = translate_framecode(string, to_type)
        /\ fn = "translate_framecode" => Seqname(string) = translate_framecode(string, "format_code")

\* the value of a Seqname is the format_code translation, whatever the filename
SeqnameIsFormatCodeTranslation ==
    fn = "translate_framecode" =>
        \/ Seqname(string) = translate_framecode(string, "format_code")
        \/ NoFramecode(Stem) /\ Seqname(string).kind = "raise"

(***************************************************************************)
(* Properties of Seqname.format and Seqname.matches (SpecSeqname).         *)
(***************************************************************************)
\* C19: for every Seqname t and every integer n, t.format(n) full-matches t.regex and
\* t.matches(t.format(n)) is true.
C19_FormattedNameMatches ==
    pc = "format_matched" => ret = Value(TRUE)

\* for a file that is not directly in a root directory the formatted name matches
FormattedNameMatchesElsewhere ==
    (pc = "format_matched" /\ ~InRoot) => ret = Value(TRUE)

\* the Seqname was asked whether it matches its filename between "FOO" and "BAR"
MatchesEmbedded == pc = "matched" /\ fn = "matches" /\ candidate = Embedded(string)

\* C20: for every filename whose framecode is a raw frame number,
\* Seqname(f).matches("FOO" + f + "BAR") is false with strict=True and true with
\* strict=False.
C20_Strictness ==
    (MatchesEmbedded /\ DigitsDetected) => ret = Value(~strict)

\* with strict=True the embedded filename is never accepted
StrictRejectsEmbedded ==
    (MatchesEmbedded /\ DigitsDetected /\ strict) => ret = Value(FALSE)

\* with strict=False the embedded filename is accepted when the filename is in normal
\* form and not directly in a root directory
NonStrictAcceptsEmbeddedElsewhere ==
    (MatchesEmbedded /\ DigitsDetected /\ ~strict /\ Normalised /\ ~InRoot)
        => ret = Value(TRUE)

(***************************************************************************)
(* Properties of the fragments format_numbers writes (SpecNumbers).        *)
(***************************************************************************)
\* text.split(", ")
FragmentsOf(t) ==
    LET pieces == split(t, ",", <<>>)
    IN [k \in 1..Len(pieces) |->
            IF pieces[k] # <<>> /\ Head(pieces[k]) = " " THEN Tail(pieces[k]) ELSE pieces[k]]

IsRepeatFragment(f) == NumbersMatch(f, 1).C.present /\ ~NumbersMatch(f, 1).B.present
IsRangeFragment(f) == NumbersMatch(f, 1).B.present

RECURSIVE RunLength(_, _, _)
\* the number of consecutive elements equal to A from index i on
RunLength(nums, i, A) ==
    IF i <= Len(nums) /\ nums[i].v = A THEN 1 + RunLength(nums, i + 1, A) ELSE 0

RECURSIVE RepeatsCounted(_, _, _, _)
\* every fragment "AxN" from the k-th on has for N the number of consecutive elements
\* equal to A it stands for; the k-th fragment starts at element i
RepeatsCounted(frags, k, nums, i) ==
    IF k > Len(frags) THEN TRUE
    ELSE \A m \in {NumbersMatch(frags[k], 1)} :
            IF m.C.present /\ ~m.B.present
            THEN \A run \in {RunLength(nums, i, int(m.A))} :
                    /\ int(m.C.txt) = run
                    /\ \A next \in {i + run} : RepeatsCounted(frags, k + 1, nums, next)
            ELSE \A next \in {i + Len(Unit(m).values)} :
                    RepeatsCounted(frags, k + 1, nums, next)

\* C21: in every fragment "AxN" of the text format_numbers returns, N is the number of
\* consecutive input elements equal to A that the fragment stands for; a trailing
\* window A, A is written "Ax2" whatever the run before it.
C21_RepeatCountIsRunLength ==
    (Formatted /\ formatted.exc = "none")
        => RepeatsCounted(FragmentsOf(formatted.value), 1, numbers, 1)

\* the repeat counts are right in every fragment but the last
RepeatCountElsewhere ==
    (Formatted /\ formatted.exc = "none")
        => \A frags \in {FragmentsOf(formatted.value)} :
              RepeatsCounted(SubSeq(frags, 1, Len(frags) - 1), 1, numbers, 1)

\* every range fragment "A-B" or "A-BxS" of the text stands for three values or more
RangesAtLeastThree(t) ==
    \A frags \in {FragmentsOf(t)} :
        \A k \in 1..Len(frags) :
            IsRangeFragment(frags[k]) => Len(Unit(NumbersMatch(frags[k], 1)).values) >= 3

\* the first window is a run of two elements with a step other than zero that the
\* third element breaks
BreaksAtTwo ==
    /\ Len(numbers) >= 3 /\ AllInts(numbers)
    /\ numbers[1].v # numbers[2].v
    /\ numbers[3].v - numbers[2].v # numbers[2].v - numbers[1].v

\* C22: a range fragment of the text format_numbers returns stands for at least three
\* input elements; when a run breaks at length 2 with a step other than zero, only its
\* first value is written bare and the rest is formatted from the second value on.
C22_RunEmissionRule ==
    (Formatted /\ formatted.exc = "none") =>
        /\ RangesAtLeastThree(formatted.value)
        /\ BreaksAtTwo =>
              formatted.value = str(numbers[1].v) \o CommaSpace
                                    \o format_numbers(Tail(numbers)).value

\* C22 witness: the run 1, -2 broke at length 2 and its second value started the range
\* -2-2x2
C22_Witness ==
    /\ Formatted /\ BreaksAtTwo /\ Len(numbers) = 4
    /\ numbers[1].v = 1 /\ numbers[2].v = 0 - 2 /\ numbers[3].v = 0 /\ numbers[4].v = 2
    /\ formatted.value = <<"1", ",", " ", "-", "2", "-", "2", "x", "2">>

\* the integers of the argument of format_numbers
ValuesOf(nums) == [i \in 1..Len(nums) |-> nums[i].v]

\* C28: for every non-empty sequence xs of integers, parse_numbers(format_numbers(xs))
\* yields exactly xs, element for element and in the same order.
C28_DecodingInvertsEncoding ==
    (Formatted /\ formatted.exc = "none" /\ parsed.exc # "unset")
        => parsed = [exc |-> "none", values |-> ValuesOf(numbers)]

\* the text parses back to the input whenever its repeat counts are right
DecodingInvertsEncodingElsewhere ==
    (Formatted /\ formatted.exc = "none" /\ parsed.exc # "unset"
        /\ RepeatsCounted(FragmentsOf(formatted.value), 1, numbers, 1))
        => parsed = [exc |-> "none", values |-> ValuesOf(numbers)]

(***************************************************************************)
(* Properties of parse_numbers on arbitrary texts (SpecParse).             *)
(***************************************************************************)
\* the text holds the characters of sub one after the other
HasSub(t, sub) ==
    \E i \in 1..(Len(t) - Len(sub) + 1) : SubSeq(t, i, i + Len(sub) - 1) = sub

TextParsed == pc = "text_parsed" /\ abc.kind = "text"

\* C23: for every text, consuming parse_numbers raises nothing, and a text without
\* a digit yields no value.
C23_ParseNeverFails ==
    TextParsed =>
        /\ parsed.exc = "none"
        /\ (\A i \in 1..Len(text) : ~IsDigit(text[i])) => parsed.values = <<>>

\* parsing raises only where a step of zero is written
ParseNeverFailsWithoutZeroStep ==
    (TextParsed /\ ~HasSub(text, <<"x", "0">>) /\ ~HasSub(text, <<"x", "-", "0">>)) =>
        /\ parsed.exc = "none"
        /\ (\A i \in 1..Len(text) : ~IsDigit(text[i])) => parsed.values = <<>>

\* C24: for all integers A, B, C, parse_numbers of "A B C" yields exactly A, B, C.
C24_SpaceSeparatedIntegers ==
    (pc = "text_parsed" /\ abc.kind = "spaced")
        => parsed = [exc |-> "none", values |-> <<abc.a, abc.b, abc.c>>]

\* three integers of which the second and the third are not negative are yielded
SpaceSeparatedNaturals ==
    (pc = "text_parsed" /\ abc.kind = "spaced" /\ abc.b >= 0 /\ abc.c >= 0)
        => parsed = [exc |-> "none", values |-> <<abc.a, abc.b, abc.c>>]

(***************************************************************************)
(* Properties of replace_framecode and of the part of the path detection   *)
(* looks at (SpecNames).                                                   *)
(***************************************************************************)
RECURSIVE MatchCount(_, _, _)
\* the number of matches of the pattern of fc_type in s from index i on
MatchCount(fc_type, s, i) ==
    IF i > Len(s) THEN 0
    ELSE IF match_at(fc_type, s, i).found
         THEN 1 + MatchCount(fc_type, s, match_at(fc_type, s, i).end)
         ELSE MatchCount(fc_type, s, i + 1)

\* the string with the first match of the detected pattern replaced by repl, the
\* directory and the extension put back around the new stem
FirstMatchReplaced ==
    PathStr(PathJoin(PathParent(Path(string)),
                     SubSeq(Stem, 1, Parser(string).match.start - 1) \o repl
                         \o SubSeq(Stem, Parser(string).match.end, Len(Stem))
                         \o PathSuffix(Path(string))))

\* C25: replace_framecode replaces the first match of the detected pattern in the stem
\* and nothing else: a second placeholder of the same convention stays, directory and
\* extension are put back around the new stem.
C25_ReplacesFirstMatchOnly ==
    (Called("replace_framecode") /\ ~NoFramecode(Stem))
        => ret = Value(FirstMatchReplaced)

\* with one match of the detected pattern in the stem, that match is replaced and
\* nothing else
ReplacesTheOnlyMatch ==
    (Called("replace_framecode") /\ ~NoFramecode(Stem)
        /\ MatchCount(Parser(string).type, Stem, 1) = 1)
        => ret = Value(FirstMatchReplaced)

\* what the detection function named f returns for the string s
Detection(f, s) ==
    CASE f = "get_framecode" -> get_framecode(s)
      [] f = "get_frame_number" -> get_frame_number(s)
      [] f = "has_framecode" -> has_framecode(s)
      [] f = "get_framecode_type" -> get_framecode_type(s)
      [] f = "get_framecode_width" -> get_framecode_width(s)

DetectionFunctions == {"get_framecode", "get_frame_number", "has_framecode",
                       "get_framecode_type", "get_framecode_width"}

\* a file with the stem of the string, in a directory and with an extension that hold
\* a digit, a numbersign and a modulo code
SameStemElsewhere == <<"7", "#", "/">> \o Stem \o <<".", "%", "0", "2", "d", "7">>

\* C26: detection looks at the stem of the last component only: a string whose stem
\* holds no framecode has none (has_framecode is False, get_frame_number is None)
\* whatever its directories and its extension hold, and the results for a stem do not
\* depend on the directory or the extension.
C26_DetectionLooksAtStemOnly ==
    /\ Called("has_framecode") => ret = Value(~NoFramecode(Stem))
    /\ (Called("get_frame_number") /\ NoFramecode(Stem)) => ret = None
    /\ (pc = "returned" /\ fn \in DetectionFunctions /\ Stem # <<>>)
          => ret = Detection(fn, SameStemElsewhere)

\* C26 witness: a digit in a directory or in the extension, none in the stem, and
\* no framecode was found
C26_Witness ==
    /\ Called("has_framecode") /\ ret = Value(FALSE)
    /\ Occurs_digits(string) /\ ~Occurs_digits(Stem) /\ Stem # <<>>

(***************************************************************************)
(* Properties of zip_sequences and FrameSequence.get_frame (SpecSequences) *)
(***************************************************************************)
\* max(len(seq) for seq in sequences)
Longest ==
    CHOOSE n \in {Len(sequences[k].frames) : k \in 1..Len(sequences)} :
        \A k \in 1..Len(sequences) : Len(sequences[k].frames) <= n

ZippedByIndex == pc = "zipped" /\ ~arg_absolute /\ arg_step = 1

\* the group of index j - 1: the frame of that index of each sequence, None past its end
GroupOfIndex(j) ==
    [k \in 1..Len(sequences) |->
        IF j <= Len(sequences[k].frames) THEN Value(sequences[k].frames[j]) ELSE None]

\* C27: zip_sequences with absolute=False, step 1 and start and end unset yields exactly
\* max(len(seq)) groups, the group of each index 0..max(len)-1, and no group for an index
\* past the end of every sequence.
C27_ZipEndsWhenExhausted ==
    ZippedByIndex =>
        /\ zipped.kind = "value"
        /\ Len(zipped.v) = Longest
        /\ \A j \in 1..Len(zipped.v) :
              /\ zipped.v[j] = GroupOfIndex(j)
              /\ \E k \in 1..Len(sequences) : zipped.v[j][k] # None

\* The groups of the indices 0..max(len)-1 are yielded as stated; they are followed by
\* one more group, of index max(len), in which every frame is None.
ZipByIndexOneGroupMore ==
    ZippedByIndex =>
        /\ zipped.kind = "value"
        /\ Len(zipped.v) = Longest + 1
        /\ \A j \in 1..Longest : zipped.v[j] = GroupOfIndex(j)
        /\ \A k \in 1..Len(sequences) : zipped.v[Longest + 1][k] = None

\* the sequence get_frame was called on
LookedUpIn == sequences[Len(sequences)]

\* C30: for every FrameSequence s whose construction succeeded and every frame p of s
\* (with a frame number), s.get_frame(get_frame_number(p)) returns p, also when the
\* frames of s have frame numbers of different digit widths.
C30_LookupFindsEveryFrame ==
    (pc = "looked_up" /\ looked_up.n.kind = "value") =>
        looked_up.result = Value(looked_up.frame)

\* every frame of the sequence has its frame number written with the same number of
\* digits
SameDigitWidths(seq) ==
    \A i \in 1..Len(seq.frames) :
        /\ get_frame_number(seq.frames[i]).kind = "value"
        /\ get_framecode_width(seq.frames[i]) = get_framecode_width(seq.frames[1])

\* The lookup returns the frame when all the frame numbers of the sequence are written
\* with the same number of digits.
LookupFindsFrameOfSameWidths ==
    (pc = "looked_up" /\ SameDigitWidths(LookedUpIn)) =>
        looked_up.result = Value(looked_up.frame)

\* a frame was looked up in a sequence of several frames of the same digit width
LookupOfSameWidthsHappens ==
    /\ pc = "looked_up" /\ SameDigitWidths(LookedUpIn) /\ Len(LookedUpIn.frames) > 1
    /\ looked_up.result = Value(looked_up.frame)

(***************************************************************************)
(* Properties of the "min" and "exact" patterns (SpecProduce)              *)
(***************************************************************************)
\* the produced frame was matched against a pattern that has to accept it: the framecode
\* has a width of 1 or more, and for "exact" the zero-padded frame number has exactly
\* that many characters, sign included
ProducedWithinWidth ==
    /\ pc = "produced_matched"
    /\ get_framecode_width(string).v >= 1
    /\ \/ policy = "min"
       \/ Len(zero_padded(frame, get_framecode_width(string).v)) = get_framecode_width(string).v

\* C29: for every filename f with a framecode of width w >= 1 and every integer n,
\* Seqname(f).format(n) full-matches create_regex(f, "min"), and it full-matches
\* create_regex(f, "exact") whenever the zero-padded rendering of n has exactly w
\* characters, sign included.
C29_BoundedRegexAcceptsProducedFrame ==
    ProducedWithinWidth => ret = Value(TRUE)

\* The same for every file that is not directly in a root directory.
BoundedRegexAcceptsProducedFrameElsewhere ==
    (ProducedWithinWidth /\ ~InRoot) => ret = Value(TRUE)
=============================================================================
